---- MODULE Spec2Model ----
(***************************************************************************)
(* Coldbase: log-structured collection over a blob store.                  *)
(* Model of src/lib/db.ts (Collection), src/lib/compactor.ts               *)
(* (CollectionCompactor), src/lib/utils.ts and the blob-store contract of  *)
(* src/lib/drivers/interface.ts, for one collection C.                     *)
(***************************************************************************)
EXTENDS Integers, Sequences, FiniteSets, TLC

\* ---------------------------------------------------------------- bounds
NumProcs == 2
NumIds == 3
NumKeys == 2
MaxWrites == 3
MaxBatch == 2
MaxTime == 3
MaxAttempts == 2
MaxMaint == 2
MaxGets == 1
MaxLines == 3
MaxRetries == 1

\* ------------------------------------------------------ program constants
LeaseDurationMs == 1
MaxMutationSize == 3
BloomBits == 2
\* copyBufferSize, in characters; a stream hands out chunks of this size
\* (the default of both is 64 KiB).
CopyBufferSize == 4

Procs == 1..NumProcs
Ids == 1..NumIds
\* The ids the callers of put, delete, batch and get use.
Keys == 1..NumKeys
NULL == 0

VARIABLES jsonl, tmp, muts, lock, idx, bloom,
          now, nextUid, budget,
          useIndex, useBloomFilter, vacuumCacheSize,
          lastTs, cache, pc, loc, res, acked

storage == <<jsonl, tmp, muts, lock, idx, bloom>>
config == <<useIndex, useBloomFilter, vacuumCacheSize>>
vars == <<jsonl, tmp, muts, lock, idx, bloom, now, nextUid, budget,
          useIndex, useBloomFilter, vacuumCacheSize,
          lastTs, cache, pc, loc, res, acked>>

\* ------------------------------------------------------------ data model
Rec(i, d, t) == [id |-> i, data |-> d, ts |-> t]

NoFile == [ex |-> FALSE, lines |-> <<>>]
File(ls) == [ex |-> TRUE, lines |-> ls]

NoIdx == [ex |-> FALSE, map |-> <<>>]
NoBloom == [ex |-> FALSE, bits |-> {}]
NoLock == [ex |-> FALSE, sid |-> 0, exp |-> 0, etag |-> 0]

RECURSIVE SeqSum(_)
SeqSum(s) == IF s = <<>> THEN 0 ELSE Head(s) + SeqSum(Tail(s))

Max(S) == CHOOSE x \in S : \A y \in S : y <= x

\* What a line of C.jsonl can be besides a record: a piece of a record
\* line that JSON.parse rejects, and the empty line. Neither carries the id
\* of a document.
Fragment == [id |-> 0, data |-> 0, ts |-> 0]
Blank == [id |-> 0, data |-> 0, ts |-> -1]

\* The length of a line: that of JSON.stringify(item) for a record, a
\* tombstone line being shorter than a data line; half a data line for a
\* fragment.
LineLen(r) == IF r = Blank THEN 0 ELSE IF r.data = NULL THEN 1 ELSE 2

\* ------------------------------------------------------------ blob store
\* An append that replaces the content of the key.
DriverAppendOverwrites(f, ls) == File(ls)

\* append(key, data): old + "\n" + data when the key holds bytes, else data.
DriverAppend(f, ls) == File(f.lines \o ls)

KeyLess(a, b) ==
  \/ a[1] < b[1]
  \/ a[1] = b[1] /\ a[2] < b[2]
  \/ a[1] = b[1] /\ a[2] = b[2] /\ a[3] < b[3]

\* list(prefix): the keys in lexicographic order (allKeys.sort()).
RECURSIVE SortKeys(_)
SortKeys(K) ==
  IF K = {} THEN <<>>
  ELSE LET m == CHOOSE k \in K : \A o \in K \ {k} : KeyLess(k, o)
       IN <<m>> \o SortKeys(K \ {m})

DriverList == SortKeys({b.key : b \in muts})

\* The body of a mutation blob that is not the JSON text of an array:
\* bytes that no write of the program produces. It is told apart by an id
\* that no record carries.
Malformed == <<[id |-> 0, data |-> 0, ts |-> 0]>>

\* A parse that hands every body on as records.
parseBatchUnchecked(body) == body

\* JSON.parse of a blob body inside try/catch, then Array.isArray: the
\* records of the batch, or none when the parse throws or the value is not
\* an array.
parseBatch(body) == IF body = Malformed THEN <<>> ELSE body

\* get(key) of a mutation blob followed by the parse; an absent blob
\* yields null, which contributes no record.
FetchBody(k) ==
  IF \E b \in muts : b.key = k
  THEN parseBatch((CHOOSE b \in muts : b.key = k).body)
  ELSE <<>>

RECURSIVE FetchAll(_)
FetchAll(ks) ==
  IF ks = <<>> THEN <<>> ELSE FetchBody(Head(ks)) \o FetchAll(Tail(ks))

\* ----------------------------------------------------------------- utils
monotonicTimestamp(last) == IF now > last THEN now ELSE last + 1

RECURSIVE MonoN(_, _)
MonoN(last, n) == IF n = 0 THEN last ELSE MonoN(monotonicTimestamp(last), n - 1)

\* BloomFilter.hash reduced to one hash function over BloomBits positions.
Hash(i) == i % BloomBits

mightContain(bf, i) == Hash(i) \in bf.bits

\* ------------------------------------------------- index + bloom rebuild
\* The position of line n in the content of the file.
Offset(ls, n) == SeqSum([j \in 1..(n - 1) |-> LineLen(ls[j]) + 1])

\* currentOffset of buildBloomFilterAndIndex at line n: streamLines does
\* not hand out an empty line, so nothing is added for it.
BuildOffset(ls, n) ==
  SeqSum([j \in 1..(n - 1) |-> IF ls[j] = Blank THEN 0 ELSE LineLen(ls[j]) + 1])

LastLine(ls, i) == Max({n \in 1..Len(ls) : ls[n].id = i})

IdsOf(ls) == {ls[n].id : n \in 1..Len(ls)}

LiveIds(ls) == {i \in IdsOf(ls) : ls[LastLine(ls, i)].data # NULL}

IndexOf(ls) ==
  [i \in LiveIds(ls) |->
     [o |-> BuildOffset(ls, LastLine(ls, i)), l |-> LineLen(ls[LastLine(ls, i)])]]

BloomOf(ls) == {Hash(i) : i \in LiveIds(ls)}

\* content.substring(o, o + l) followed by JSON.parse: the record whose
\* line spans exactly [o, o+l), or a parse failure (0) when no line does.
SubstringLine(ls, e) ==
  LET hit == {n \in 1..Len(ls) : Offset(ls, n) = e.o /\ LineLen(ls[n]) = e.l}
  IN IF hit = {} THEN 0 ELSE CHOOSE n \in hit : TRUE

\* --------------------------------------------------------- process state
NoCache == [index |-> NoIdx, bloom |-> NoBloom, main |-> NoFile]

NoPre == [gets |-> [q \in Procs |-> [i \in Ids |-> NULL]],
          count |-> 0,
          snap |-> [i \in Ids |-> NULL]]

NoLoc == [kind |-> "none", id |-> 0, keys |-> <<>>, main |-> NoFile,
          etag |-> 0, recs |-> <<>>, tracker |-> <<>>, overflow |-> {},
          pre |-> NoPre, exp |-> 0, acq |-> 0, pend |-> FALSE,
          acked |-> {}, seen |-> 0, err |-> FALSE, expired |-> {},
          auto |-> FALSE, attempt |-> 0, trig |-> <<>>,
          tx |-> <<>>, undo |-> <<>>, upre |-> NoPre, copied |-> 0]

NoRes == [by |-> 0, op |-> "none", status |-> "none", uid |-> 0,
          id |-> 0, val |-> NULL,
          path |-> "none", pend |-> FALSE, acked0 |-> {}, pre |-> NoPre,
          recs |-> <<>>, auto |-> FALSE, attempts |-> 0, hooks |-> 0,
          fails |-> 0, failArg |-> 0, at |-> 0, overflow |-> {}, vecs |-> <<>>]

\* The state after construction of the Db; bud is what the environment will
\* do: calls left to issue (w writes, g gets, m compact or vacuum calls),
\* whether driver.put may fail (f) and whether calls are issued one at a
\* time (solo), whether the collection is a VectorCollection (vec) and
\* whether autoCompact / autoVacuum are configured (auto), the value of the
\* ttlField of each document the application will put (ttl: data -> expiry
\* time, NULL where the field is undefined; the empty function when the
\* collection declares no ttlField), the deleteExpired calls left (d) and
\* the db.transaction calls left (t);
\* caps are the configured values of vacuumCacheSize.
InitDb(bud, caps) ==
  /\ tmp = NoFile
  /\ now = 1 /\ nextUid = 1 /\ budget = bud
  /\ useIndex \in BOOLEAN /\ useBloomFilter \in BOOLEAN
  /\ vacuumCacheSize \in caps
  /\ lastTs = [p \in Procs |-> 0]
  /\ cache = [p \in Procs |-> NoCache]
  /\ pc = [p \in Procs |-> "idle"]
  /\ loc = [p \in Procs |-> NoLoc]
  /\ res = NoRes
  /\ acked = {}

\* An empty store.
InitWith(bud, caps) ==
  /\ InitDb(bud, caps)
  /\ jsonl = NoFile /\ muts = {}
  /\ lock = NoLock /\ idx = NoIdx /\ bloom = NoBloom

\* A call may start: under one-at-a-time scheduling only when no other
\* process is inside a call.
CanStart(p) ==
  /\ pc[p] = "idle"
  /\ budget.solo => \A q \in Procs : pc[q] = "idle"

\* ---------------------------------------------------- Collection: writes
\* The data object of the n-th item of the call with number uid.
DataOf(uid, n) == (uid - 1) * MaxBatch + n

Item(i, del) == [id |-> i, del |-> del]

\* An item whose data is a document read earlier (NULL: a delete).
ItemOf(i, d) == [id |-> i, del |-> (d = NULL), data |-> d]

\* items.map(({ id, data }) => [id, data, now]); the data of a put is a
\* fresh document unless the item carries one.
Payload(items, uid, ts) ==
  [n \in 1..Len(items) |->
     Rec(items[n].id,
         IF items[n].del THEN NULL
         ELSE IF "data" \in DOMAIN items[n] THEN items[n].data
         ELSE DataOf(uid, n),
         ts)]

\* What one driver.put attempt can do: store the blob and return ("ok"),
\* fail before the store applied it ("fail"), or fail with a retryable
\* network error (ETIMEDOUT, ECONNRESET) after the store applied it
\* ("timeout").
Outcomes == {"ok", "fail", "timeout"}

\* retry(write, retryOptions): the attempts of one call; the loop stops at
\* the first attempt that returns and gives up after MaxAttempts. A driver
\* whose put cannot fail returns at the first attempt.
AttemptSeqs ==
  IF ~budget.f THEN {<<"ok">>}
  ELSE {o \in UNION {[1..n -> Outcomes] : n \in 1..MaxAttempts} :
          /\ \A n \in 1..(Len(o) - 1) : o[n] # "ok"
          /\ o[Len(o)] = "ok" \/ Len(o) = MaxAttempts}

\* The key timestamp of attempt n: one more monotonicTimestamp() per attempt.
KeyTs(ts, n) == MonoN(ts, n)

\* The blobs the attempts of one call leave in the store: write() draws a
\* fresh key for each attempt and puts the whole payload.
WriteBlobs(ts, uid, payload, outs) ==
  {[key |-> <<KeyTs(ts, n), uid, n>>, body |-> payload] :
     n \in {m \in 1..Len(outs) : outs[m] # "fail"}}

\* JSON.stringify(payload).length
EncodedLen(payload) ==
  SeqSum([n \in 1..Len(payload) |-> LineLen(payload[n])])

\* A size test that lets every batch through.
TooLongNever(payload) == FALSE

\* json.length > this.config.maxMutationSize
TooLong(payload) == EncodedLen(payload) > MaxMutationSize

\* _writeMutations: stamp the records, test the encoded length, then
\* driver.put under retry(). A batch that is too long raises before any
\* attempt, so its attempts are the single default choice.
doWrite(p, op, items, outs) ==
  /\ outs # <<"ok">> => budget.f
  /\ LET ts == monotonicTimestamp(lastTs[p])
         payload == Payload(items, nextUid, ts)
         ok == outs[Len(outs)] = "ok"
     IN IF TooLong(payload)
        THEN /\ outs = <<"ok">>
             /\ lastTs' = [lastTs EXCEPT ![p] = ts]
             /\ res' = [NoRes EXCEPT !.by = p, !.op = op, !.uid = nextUid,
                                     !.status = "SizeLimitError",
                                     !.id = items[1].id,
                                     !.val = payload[1].data,
                                     !.recs = payload]
             /\ UNCHANGED <<muts, cache, acked>>
        ELSE /\ lastTs' = [lastTs EXCEPT ![p] = KeyTs(ts, Len(outs))]
             /\ muts' = muts \cup WriteBlobs(ts, nextUid, payload, outs)
             /\ IF ok
                THEN /\ cache' = [cache EXCEPT ![p] = NoCache]
                     /\ acked' = acked \cup {payload[n] : n \in 1..Len(payload)}
                ELSE UNCHANGED <<cache, acked>>
             /\ res' = [NoRes EXCEPT !.by = p, !.op = op, !.uid = nextUid,
                                     !.status = IF ok THEN "ok" ELSE "raised",
                                     !.id = items[1].id,
                                     !.val = payload[1].data,
                                     !.recs = payload]
  /\ nextUid' = nextUid + 1

\* put / delete / batch of a Collection: one _writeMutations call.
writeMutations(p, op, items, outs) ==
  /\ CanStart(p)
  /\ budget.w > 0
  /\ ~budget.vec
  /\ doWrite(p, op, items, outs)
  /\ budget' = [budget EXCEPT !.w = @ - 1]
  /\ UNCHANGED <<jsonl, tmp, lock, idx, bloom, now, config, pc, loc>>

Put(p) ==
  /\ budget.w > 0
  /\ \E i \in Keys, outs \in AttemptSeqs :
       writeMutations(p, "put", <<Item(i, FALSE)>>, outs)

Delete(p) ==
  /\ budget.w > 0
  /\ \E i \in Keys, outs \in AttemptSeqs :
       writeMutations(p, "delete", <<Item(i, TRUE)>>, outs)

\* The item lists of batch(): 2..MaxBatch puts and deletes.
BatchItems ==
  UNION {[1..n -> {Item(i, d) : i \in Keys, d \in BOOLEAN}] : n \in 2..MaxBatch}

Batch(p) ==
  /\ budget.w > 0
  /\ \E items \in BatchItems, outs \in AttemptSeqs :
       writeMutations(p, "batch", items, outs)

\* The dimension the vector collection is configured with.
Dimension == 2

\* An element that is not a finite number (NaN, Infinity, a non-number).
NonFinite == 0

\* The vectors an application hands in: arrays one element short or of the
\* right length, each element the finite number 1 or not a finite number,
\* and the array of finite numbers that is one element too long.
Vectors ==
  UNION {[1..n -> {1, NonFinite}] : n \in (Dimension - 1)..Dimension}
    \cup {[n \in 1..(Dimension + 1) |-> 1]}

\* A validation that accepts every vector.
validateVectorNever(v) == "ok"

\* validateVector on an array: the length test, then the test of each
\* element; "ok" when it returns.
validateVector(v) ==
  IF Len(v) # Dimension THEN "VectorDimensionError"
  ELSE IF \E n \in 1..Len(v) : v[n] = NonFinite THEN "InvalidVectorError"
  ELSE "ok"

\* VectorCollection._writeMutations: items.map validates the vector of each
\* put in order and the first failure leaves the call; then as
\* writeMutations, but the records and each attempt's key are stamped with
\* Date.now(). vs[n] is the vector of item n (unused for a delete).
vectorWriteMutations(p, op, items, vs, outs) ==
  /\ CanStart(p)
  /\ budget.w > 0
  /\ budget.vec
  /\ LET payload == Payload(items, nextUid, now)
         ok == outs[Len(outs)] = "ok"
         bad == {n \in 1..Len(items) :
                   ~items[n].del /\ validateVector(vs[n]) # "ok"}
     IN IF bad # {}
        THEN /\ outs = <<"ok">>
             /\ res' = [NoRes EXCEPT !.by = p, !.op = op, !.uid = nextUid,
                                     !.status =
                                       validateVector(
                                         vs[CHOOSE n \in bad :
                                              \A m \in bad : n <= m]),
                                     !.id = items[1].id,
                                     !.val = payload[1].data,
                                     !.recs = payload, !.vecs = vs]
             /\ UNCHANGED <<muts, cache, acked>>
        ELSE IF TooLong(payload)
        THEN /\ outs = <<"ok">>
             /\ res' = [NoRes EXCEPT !.by = p, !.op = op, !.uid = nextUid,
                                     !.status = "SizeLimitError",
                                     !.id = items[1].id,
                                     !.val = payload[1].data,
                                     !.recs = payload, !.vecs = vs]
             /\ UNCHANGED <<muts, cache, acked>>
        ELSE /\ muts' = muts \cup
                         {[key |-> <<now, nextUid, n>>, body |-> payload] :
                            n \in {m \in 1..Len(outs) : outs[m] # "fail"}}
             /\ IF ok
                THEN /\ cache' = [cache EXCEPT ![p] = NoCache]
                     /\ acked' = acked \cup {payload[n] : n \in 1..Len(payload)}
                ELSE UNCHANGED <<cache, acked>>
             /\ res' = [NoRes EXCEPT !.by = p, !.op = op, !.uid = nextUid,
                                     !.status = IF ok THEN "ok" ELSE "raised",
                                     !.id = items[1].id,
                                     !.val = payload[1].data,
                                     !.recs = payload, !.vecs = vs]
  /\ nextUid' = nextUid + 1
  /\ budget' = [budget EXCEPT !.w = @ - 1]
  /\ UNCHANGED <<jsonl, tmp, lock, idx, bloom, now, config, lastTs, pc, loc>>

VectorPut(p) ==
  /\ budget.w > 0
  /\ \E i \in Keys, v \in Vectors, outs \in AttemptSeqs :
       vectorWriteMutations(p, "put", <<Item(i, FALSE)>>, <<v>>, outs)

VectorDelete(p) ==
  /\ budget.w > 0
  /\ \E i \in Keys, outs \in AttemptSeqs :
       vectorWriteMutations(p, "delete", <<Item(i, TRUE)>>, << <<>> >>, outs)

\* VectorCollection.batch: the puts and deletes of fn in one
\* _writeMutations call.
VectorBatch(p) ==
  /\ budget.w > 0
  /\ \E items \in BatchItems, outs \in AttemptSeqs :
       \E vs \in [1..Len(items) -> Vectors] :
         vectorWriteMutations(p, "batch", items, vs, outs)

\* ----------------------------------------------------- Collection: reads
\* A test that counts a document as expired from its expiry time on.
isExpiredAtExpiry(d) ==
  /\ d \in DOMAIN budget.ttl
  /\ budget.ttl[d] # NULL /\ budget.ttl[d] <= now

\* isExpired: a ttlField is declared, the document carries it and its value
\* is less than Date.now().
isExpired(d) ==
  /\ d \in DOMAIN budget.ttl
  /\ budget.ttl[d] # NULL /\ budget.ttl[d] < now

\* What a reader hands out for the data its fold ended on.
Visible(d) == IF d = NULL \/ isExpired(d) THEN NULL ELSE d

loadBloomFilter(p) ==
  IF ~useBloomFilter THEN NoBloom
  ELSE IF cache[p].bloom.ex THEN cache[p].bloom
  ELSE bloom

loadIndex(p) ==
  IF ~useIndex THEN NoIdx
  ELSE IF cache[p].index.ex THEN cache[p].index
  ELSE IF muts # {} THEN NoIdx
  ELSE idx

\* The two fast paths of get(): done = the call returned without a scan.
FastPath(p, i) ==
  LET bf == loadBloomFilter(p)
      c1 == [cache[p] EXCEPT !.bloom = bf]
  IN IF bf.ex /\ ~mightContain(bf, i)
     THEN [done |-> TRUE, val |-> NULL, path |-> "bloom", cache |-> c1]
     ELSE
       LET ix == loadIndex(p)
           c2 == [c1 EXCEPT !.index = ix]
       IN IF ~ix.ex
          THEN [done |-> FALSE, val |-> NULL, path |-> "scan", cache |-> c2]
          ELSE IF i \notin DOMAIN ix.map
          THEN [done |-> TRUE, val |-> NULL, path |-> "index", cache |-> c2]
          ELSE
            LET content == IF c2.main.ex THEN c2.main
                           ELSE IF jsonl.ex /\ jsonl.lines # <<>> THEN jsonl
                           ELSE NoFile
                c3 == [c2 EXCEPT !.main = content]
                n == IF content.ex THEN SubstringLine(content.lines, ix.map[i]) ELSE 0
            IN IF n # 0 /\ content.lines[n].data # NULL
                  /\ ~isExpired(content.lines[n].data)
               THEN [done |-> TRUE, val |-> content.lines[n].data,
                     path |-> "index", cache |-> c3]
               ELSE [done |-> FALSE, val |-> NULL, path |-> "scan", cache |-> c3]

\* The slow path of get(): the data of the last record for i in the stream.
ScanGet(stream, i) ==
  LET S == {n \in 1..Len(stream) : stream[n].id = i}
  IN IF S = {} THEN NULL ELSE stream[Max(S)].data

\* A whole get(i) by p evaluated on the current state.
GetNow(p, i) ==
  LET fp == FastPath(p, i)
  IN IF fp.done THEN fp.val
     ELSE Visible(ScanGet(jsonl.lines \o FetchAll(DriverList), i))

\* get(): the fast paths, then read() lists the mutation keys. What the
\* listed blobs hold at that moment is remembered in recs, which the call
\* itself does not use, for the comparison with what the read yields.
GetStart(p) ==
  /\ CanStart(p)
  /\ budget.g > 0
  /\ budget' = [budget EXCEPT !.g = @ - 1]
  /\ \E i \in Keys :
       LET fp == FastPath(p, i)
       IN /\ cache' = [cache EXCEPT ![p] = fp.cache]
          /\ IF fp.done
             THEN /\ res' =
                               [NoRes EXCEPT !.by = p, !.op = "get", !.status = "ok",
                                             !.id = i, !.val = fp.val,
                                             !.path = fp.path,
                                             !.pend = (muts # {}),
                                             !.acked0 = acked]
                  /\ UNCHANGED <<pc, loc>>
             ELSE /\ loc' = [loc EXCEPT ![p] =
                               [NoLoc EXCEPT !.kind = "get", !.id = i,
                                             !.keys = DriverList,
                                             !.recs = FetchAll(DriverList),
                                             !.pend = (muts # {}),
                                             !.acked = acked]]
                  /\ pc' = [pc EXCEPT ![p] = "r_main"]
                  /\ UNCHANGED res
  /\ UNCHANGED <<storage, now, nextUid, config, lastTs, acked>>

\* read(): driver.get of the snapshot.
ReadMain(p) ==
  /\ pc[p] = "r_main"
  /\ loc' = [loc EXCEPT ![p].main = jsonl]
  /\ pc' = [pc EXCEPT ![p] = "r_blobs"]
  /\ UNCHANGED <<storage, now, nextUid, budget, config, lastTs, cache, res, acked>>

\* read(): fetch of the listed mutation blobs; get() folds the stream.
ReadBlobs(p) ==
  /\ pc[p] = "r_blobs"
  /\ LET stream == loc[p].main.lines \o FetchAll(loc[p].keys)
     IN res' =
                 [NoRes EXCEPT !.by = p, !.op = "get", !.status = "ok",
                               !.id = loc[p].id,
                               !.val = Visible(ScanGet(stream, loc[p].id)),
                               !.path = "scan",
                               !.pend = loc[p].pend,
                               !.acked0 = loc[p].acked]
  /\ loc' = [loc EXCEPT ![p] = NoLoc]
  /\ pc' = [pc EXCEPT ![p] = "idle"]
  /\ UNCHANGED <<storage, now, nextUid, budget, config, lastTs, cache, acked>>

\* count(): the ids whose last record in read() carries data that has not
\* expired.
CountOf(stream) ==
  Cardinality({i \in Ids : Visible(ScanGet(stream, i)) # NULL})

CountNow == CountOf(jsonl.lines \o FetchAll(DriverList))

\* The ids of S in ascending order.
RECURSIVE IdSeq(_)
IdSeq(S) ==
  IF S = {} THEN <<>>
  ELSE LET m == CHOOSE i \in S : \A j \in S : i <= j
       IN <<m>> \o IdSeq(S \ {m})

\* deleteExpired: without a ttlField return 0; else fold read() and collect
\* the ids whose last record carries expired data; with none, return 0.
DeleteExpiredRead(p) ==
  /\ CanStart(p)
  /\ budget.d > 0
  /\ budget' = [budget EXCEPT !.d = @ - 1]
  /\ LET stream == jsonl.lines \o FetchAll(DriverList)
         exp == {i \in Ids : /\ ScanGet(stream, i) # NULL
                             /\ isExpired(ScanGet(stream, i))}
     IN IF exp = {}
        THEN /\ res' = [NoRes EXCEPT !.by = p, !.op = "deleteExpired",
                                     !.status = "ok"]
             /\ UNCHANGED <<pc, loc>>
        ELSE /\ loc' = [loc EXCEPT ![p] =
                          [NoLoc EXCEPT !.kind = "deleteExpired", !.expired = exp]]
             /\ pc' = [pc EXCEPT ![p] = "dx_write"]
             /\ UNCHANGED res
  /\ UNCHANGED <<storage, now, nextUid, config, lastTs, cache, acked>>

\* deleteExpired: one _writeMutations call with a tombstone per collected
\* id; the number of tombstones is returned.
DeleteExpiredWrite(p) ==
  /\ pc[p] = "dx_write"
  /\ \E outs \in AttemptSeqs :
       doWrite(p, "deleteExpired",
               [n \in 1..Cardinality(loc[p].expired) |->
                  Item(IdSeq(loc[p].expired)[n], TRUE)], outs)
  /\ loc' = [loc EXCEPT ![p] = NoLoc]
  /\ pc' = [pc EXCEPT ![p] = "idle"]
  /\ UNCHANGED <<jsonl, tmp, lock, idx, bloom, now, budget, config>>

\* read({ at }), the mutation blobs: a blob whose filename timestamp exceeds
\* at is skipped without being fetched; of a fetched blob the records with
\* ts > at are skipped.
RECURSIVE readBlobsAt(_, _)
readBlobsAt(ks, at) ==
  IF ks = <<>> THEN <<>>
  ELSE LET k == Head(ks)
           NotAfter(r) == r.ts <= at
       IN (IF k[1] > at THEN <<>> ELSE SelectSeq(FetchBody(k), NotAfter))
          \o readBlobsAt(Tail(ks), at)

\* read({ at }) on the current state: the snapshot lines with ts <= at, then
\* the mutation blobs in key order.
readAt(at) ==
  LET NotAfter(r) == r.ts <= at
  IN SelectSeq(jsonl.lines, NotAfter) \o readBlobsAt(DriverList, at)

\* The time-travel bounds an application passes: a truthy at, which makes
\* get skip both fast paths.
AtBounds == 1..(MaxTime + 2)

\* get(i, { at }): no fast path, the fold of read({ at }).
GetAt(p) ==
  /\ CanStart(p)
  /\ budget.g > 0
  /\ budget' = [budget EXCEPT !.g = @ - 1]
  /\ \E i \in Keys, at \in AtBounds :
       res' = [NoRes EXCEPT !.by = p, !.op = "getAt", !.status = "ok",
                            !.id = i, !.at = at, !.recs = readAt(at),
                            !.val = Visible(ScanGet(readAt(at), i))]
  /\ UNCHANGED <<storage, now, nextUid, config, lastTs, cache, pc, loc, acked>>

\* What every reader would be answered on the current state.
Observe ==
  [gets |-> [q \in Procs |-> [i \in Ids |-> GetNow(q, i)]],
   count |-> CountNow,
   snap |-> [i \in Ids |-> ScanGet(jsonl.lines, i)]]

\* --------------------------------------------------------- Db.transaction
\* The nesting depth fn reaches: a transaction and one inside it.
MaxDepth == 2

\* A compensation that runs first in, first out.
firstCompensation(undo) == 1

\* for (let i = compensations.length - 1; i >= 0; i--): the compensation
\* that runs next.
lastCompensation(undo) == Len(undo)

\* db.transaction(fn): executeTransaction with an empty compensation list;
\* what get answers now is remembered for the comparison after a rollback.
TxBegin(p) ==
  /\ CanStart(p)
  /\ budget.t > 0
  /\ budget' = [budget EXCEPT !.t = @ - 1]
  /\ loc' = [loc EXCEPT ![p] =
               [NoLoc EXCEPT !.kind = "transaction",
                             !.tx = <<[comps |-> <<>>, pre |-> Observe]>>]]
  /\ pc' = [pc EXCEPT ![p] = "tx"]
  /\ UNCHANGED <<storage, now, nextUid, config, lastTs, cache, res, acked>>

\* tx.collection(name).put(data): col.get of the old document, col.put,
\* then the compensation is pushed: put(old), or delete when there was none.
TxPut(p) ==
  /\ pc[p] = "tx"
  /\ budget.w > 0
  /\ budget' = [budget EXCEPT !.w = @ - 1]
  /\ \E i \in Keys :
       /\ doWrite(p, "put", <<Item(i, FALSE)>>, <<"ok">>)
       /\ loc' = [loc EXCEPT ![p].tx[Len(loc[p].tx)].comps =
                    Append(@, [id |-> i, old |-> GetNow(p, i)])]
  /\ UNCHANGED <<jsonl, tmp, lock, idx, bloom, now, config, pc>>

\* tx.collection(name).delete(id): col.get, col.delete, and a compensation
\* put(old) only when there was a document.
TxDelete(p) ==
  /\ pc[p] = "tx"
  /\ budget.w > 0
  /\ budget' = [budget EXCEPT !.w = @ - 1]
  /\ \E i \in Keys :
       /\ doWrite(p, "delete", <<Item(i, TRUE)>>, <<"ok">>)
       /\ loc' = IF GetNow(p, i) # NULL
                 THEN [loc EXCEPT ![p].tx[Len(loc[p].tx)].comps =
                         Append(@, [id |-> i, old |-> GetNow(p, i)])]
                 ELSE loc
  /\ UNCHANGED <<jsonl, tmp, lock, idx, bloom, now, config, pc>>

\* tx.transaction(innerFn): executeTransaction with the compensations of
\* the enclosing one as parent.
TxNested(p) ==
  /\ pc[p] = "tx"
  /\ Len(loc[p].tx) < MaxDepth
  /\ loc' = [loc EXCEPT ![p].tx = Append(@, [comps |-> <<>>, pre |-> Observe])]
  /\ UNCHANGED <<storage, now, nextUid, budget, config, lastTs, cache, pc, res, acked>>

\* innerFn returned: its compensations are promoted to the parent.
TxNestedReturn(p) ==
  /\ pc[p] = "tx"
  /\ Len(loc[p].tx) >= 2
  /\ LET n == Len(loc[p].tx)
     IN loc' = [loc EXCEPT ![p].tx =
                  [SubSeq(@, 1, n - 1) EXCEPT ![n - 1].comps =
                     @ \o loc[p].tx[n].comps]]
  /\ UNCHANGED <<storage, now, nextUid, budget, config, lastTs, cache, pc, res, acked>>

\* fn returned and there is no parent: the transaction resolves.
TxCommit(p) ==
  /\ pc[p] = "tx"
  /\ Len(loc[p].tx) = 1
  /\ res' = [NoRes EXCEPT !.by = p, !.op = "transaction", !.status = "ok",
                          !.pre = loc[p].tx[1].pre]
  /\ loc' = [loc EXCEPT ![p] = NoLoc]
  /\ pc' = [pc EXCEPT ![p] = "idle"]
  /\ UNCHANGED <<storage, now, nextUid, budget, config, lastTs, cache, acked>>

\* The fn of the innermost running transaction throws (an error of its
\* own, or one it was handed and did not catch): its catch clause starts on
\* its own compensations.
TxThrow(p) ==
  /\ pc[p] = "tx"
  /\ LET n == Len(loc[p].tx)
     IN loc' = [loc EXCEPT ![p].tx = SubSeq(@, 1, n - 1),
                           ![p].undo = loc[p].tx[n].comps,
                           ![p].upre = loc[p].tx[n].pre]
  /\ pc' = [pc EXCEPT ![p] = "tx_undo"]
  /\ UNCHANGED <<storage, now, nextUid, budget, config, lastTs, cache, res, acked>>

\* One iteration of the compensation loop: col.put(old) or col.delete(id).
TxCompensate(p) ==
  /\ pc[p] = "tx_undo"
  /\ loc[p].undo # <<>>
  /\ LET n == lastCompensation(loc[p].undo)
         c == loc[p].undo[n]
     IN /\ doWrite(p, "compensate", <<ItemOf(c.id, c.old)>>, <<"ok">>)
        /\ loc' = [loc EXCEPT ![p].undo =
                     SubSeq(@, 1, n - 1) \o SubSeq(@, n + 1, Len(@))]
  /\ UNCHANGED <<jsonl, tmp, lock, idx, bloom, now, budget, config, pc>>

\* The loop is over: TransactionError is thrown, to the caller of
\* db.transaction or into the fn of the enclosing transaction.
TxRejected(p) ==
  /\ pc[p] = "tx_undo"
  /\ loc[p].undo = <<>>
  /\ res' = [NoRes EXCEPT !.by = p,
                          !.op = IF loc[p].tx = <<>> THEN "transaction"
                                 ELSE "nested",
                          !.status = "TransactionError",
                          !.pre = loc[p].upre]
  /\ IF loc[p].tx = <<>>
     THEN /\ loc' = [loc EXCEPT ![p] = NoLoc]
          /\ pc' = [pc EXCEPT ![p] = "idle"]
     ELSE /\ loc' = [loc EXCEPT ![p].upre = NoPre]
          /\ pc' = [pc EXCEPT ![p] = "tx"]
  /\ UNCHANGED <<storage, now, nextUid, budget, config, lastTs, cache, acked>>

\* ------------------------------------------------- compactor: lease lock
lockMeta(p) ==
  [ex |-> TRUE, sid |-> p, exp |-> now + LeaseDurationMs, etag |-> lock.etag + 1]

\* A takeover test that counts a lease as over at expiresAt itself.
ExpiredAtBoundary(meta) == now >= meta.exp

\* A takeover test that passes only a lock that was released.
ExpiredOnlyReleased(meta) == meta.exp = 0 /\ now > meta.exp

\* The takeover test of acquireLock.
Expired(meta) == now > meta.exp

\* p is inside fn(), the body that withLock runs under the lock.
InBody(p) ==
  pc[p] \in {"c_list", "c_append", "c_delete", "build",
             "v_init", "v_pass1", "v_pass2", "v_trunc", "v_copy"}

\* An auto-maintenance loop that retries after every error.
RetryableAny(status) == TRUE

\* runAutoCompactWithRetry / runAutoVacuumWithRetry: a LockActiveError ends
\* the loop, any other error is retried.
Retryable(status) == status # "LockActiveError"

\* A loop that runs one iteration more.
LoopGoesOnOnceMore(attempt) == attempt <= MaxRetries

\* for (let attempt = 0; attempt <= maxRetries; attempt++): after the
\* iteration with index attempt there is another one.
LoopGoesOn(attempt) == attempt + 1 <= MaxRetries

\* The end of one compact() or vacuum() call. A call made by the
\* application hands its result or error to the caller. A call made by an
\* auto-maintenance loop returns into the loop: a result ends it, a
\* LockActiveError ends it without a hook, any other error is retried
\* while the loop goes on and then reported once through onError (hooks
\* counts its invocations) and once through onMaintenanceFailure (fails
\* counts them, failArg is the attempts argument). The overflow set of a
\* vacuum run, which pass 1 logs, is kept with the result.
Finish(p, status) ==
  IF loc[p].auto /\ status # "ok" /\ Retryable(status)
     /\ LoopGoesOn(loc[p].attempt)
  THEN /\ loc' = [loc EXCEPT ![p] = [NoLoc EXCEPT !.kind = loc[p].kind,
                                                  !.auto = TRUE,
                                                  !.trig = loc[p].trig,
                                                  !.attempt = loc[p].attempt + 1]]
       /\ pc' = [pc EXCEPT ![p] = "auto"]
       /\ UNCHANGED res
  ELSE /\ res' =
               [NoRes EXCEPT !.by = p, !.op = loc[p].kind, !.status = status,
                             !.pre = loc[p].pre,
                             !.overflow = loc[p].overflow,
                             !.auto = loc[p].auto,
                             !.attempts = IF loc[p].auto THEN loc[p].attempt + 1 ELSE 0,
                             !.hooks = IF loc[p].auto /\ status # "ok" /\ Retryable(status)
                                       THEN 1 ELSE 0,
                             !.fails = IF loc[p].auto /\ status # "ok" /\ Retryable(status)
                                       THEN 1 ELSE 0,
                             !.failArg = IF loc[p].auto /\ status # "ok" /\ Retryable(status)
                                         THEN loc[p].attempt + 1 ELSE 0]
       /\ loc' = [loc EXCEPT ![p] = NoLoc]
       /\ pc' = [pc EXCEPT ![p] = "idle"]

\* withLock: putIfNoneMatch, and on PreconditionFailed the read of the
\* existing lock blob and the expiry test.
AcquireLock(p, kind) ==
  /\ CanStart(p)
  /\ budget.m > 0
  /\ budget' = [budget EXCEPT !.m = @ - 1]
  /\ LET l0 == [NoLoc EXCEPT !.kind = kind, !.pre = Observe]
     IN IF ~lock.ex
        THEN /\ lock' = lockMeta(p)
             /\ loc' = [loc EXCEPT ![p] =
                          [l0 EXCEPT !.etag = lock.etag + 1,
                                     !.exp = now + LeaseDurationMs,
                                     !.acq = now]]
             /\ pc' = [pc EXCEPT ![p] = IF kind = "compact" THEN "c_list" ELSE "v_init"]
             /\ UNCHANGED res
        ELSE IF Expired(lock)
        THEN /\ loc' = [loc EXCEPT ![p] = [l0 EXCEPT !.etag = lock.etag]]
             /\ pc' = [pc EXCEPT ![p] = "takeover"]
             /\ UNCHANGED <<lock, res>>
        ELSE /\ res' =
                          [NoRes EXCEPT !.by = p, !.op = kind, !.status = "LockActiveError"]
             /\ UNCHANGED <<lock, loc, pc>>
  /\ UNCHANGED <<jsonl, tmp, muts, idx, bloom, now, nextUid, config, lastTs, cache, acked>>

\* maybeRunMaintenance: the write of p has returned and
\* shouldTriggerMaintenance answered true; an auto-maintenance loop starts
\* in the background.
AutoTrigger(p, kind) ==
  /\ budget.auto
  /\ pc[p] = "idle"
  /\ res.by = p /\ res.op \in {"put", "delete", "batch"} /\ res.status = "ok"
  /\ loc' = [loc EXCEPT ![p] = [NoLoc EXCEPT !.kind = kind, !.auto = TRUE,
                                             !.trig = res.recs]]
  /\ pc' = [pc EXCEPT ![p] = "auto"]
  /\ UNCHANGED <<storage, now, nextUid, budget, config, lastTs, cache, res, acked>>

\* One attempt of the loop: compactor.compact / vacuum, whose withLock
\* acquires the lock as in AcquireLock.
AutoAcquire(p) ==
  /\ pc[p] = "auto"
  /\ LET l0 == [loc[p] EXCEPT !.pre = Observe]
     IN IF ~lock.ex
        THEN /\ lock' = lockMeta(p)
             /\ loc' = [loc EXCEPT ![p] =
                          [l0 EXCEPT !.etag = lock.etag + 1,
                                     !.exp = now + LeaseDurationMs,
                                     !.acq = now]]
             /\ pc' = [pc EXCEPT ![p] = IF loc[p].kind = "compact" THEN "c_list" ELSE "v_init"]
             /\ UNCHANGED res
        ELSE IF Expired(lock)
        THEN /\ loc' = [loc EXCEPT ![p] = [l0 EXCEPT !.etag = lock.etag]]
             /\ pc' = [pc EXCEPT ![p] = "takeover"]
             /\ UNCHANGED <<lock, res>>
        ELSE /\ Finish(p, "LockActiveError")
             /\ UNCHANGED lock
  /\ UNCHANGED <<jsonl, tmp, muts, idx, bloom, now, nextUid, budget, config, lastTs, cache, acked>>

\* A takeover that writes the lock whatever its version is.
TakeoverUnconditional(p) ==
  /\ pc[p] = "takeover"
  /\ lock' = lockMeta(p)
  /\ loc' = [loc EXCEPT ![p].etag = lock.etag + 1,
                        ![p].exp = now + LeaseDurationMs,
                        ![p].acq = now]
  /\ pc' = [pc EXCEPT ![p] = IF loc[p].kind = "compact" THEN "c_list" ELSE "v_init"]
  /\ UNCHANGED <<jsonl, tmp, muts, idx, bloom, now, nextUid, budget, config, lastTs, cache, res, acked>>

\* acquireLock: putIfMatch against the version read with the expired lock.
Takeover(p) ==
  /\ pc[p] = "takeover"
  /\ IF lock.etag = loc[p].etag
     THEN /\ lock' = lockMeta(p)
          /\ loc' = [loc EXCEPT ![p].etag = lock.etag + 1,
                                ![p].exp = now + LeaseDurationMs,
                                ![p].acq = now]
          /\ pc' = [pc EXCEPT ![p] = IF loc[p].kind = "compact" THEN "c_list" ELSE "v_init"]
          /\ UNCHANGED res
     ELSE /\ Finish(p, "PreconditionFailedError")
          /\ UNCHANGED lock
  /\ UNCHANGED <<jsonl, tmp, muts, idx, bloom, now, nextUid, budget, config, lastTs, cache, acked>>

\* An await inside fn() rejects (a driver call fails): the error leaves the
\* body and reaches the finally clause of withLock.
BodyFails(p) ==
  /\ InBody(p)
  /\ budget.f
  /\ loc' = [loc EXCEPT ![p].err = TRUE]
  /\ pc' = [pc EXCEPT ![p] = "rel"]
  /\ UNCHANGED <<storage, now, nextUid, budget, config, lastTs, cache, res, acked>>

\* A release that runs only after a body that returned.
ReleaseLockOnSuccess(p) ==
  /\ pc[p] = "rel"
  /\ lock' = IF lock.etag = loc[p].etag /\ ~loc[p].err
             THEN [ex |-> TRUE, sid |-> p, exp |-> 0, etag |-> lock.etag + 1]
             ELSE lock
  /\ Finish(p, IF loc[p].err THEN "raised" ELSE "ok")
  /\ UNCHANGED <<jsonl, tmp, muts, idx, bloom, now, nextUid, budget, config, lastTs, cache, acked>>

\* A release that writes expiresAt = 0 whatever the version of the lock is.
ReleaseLockUnconditional(p) ==
  /\ pc[p] = "rel"
  /\ lock' = [ex |-> TRUE, sid |-> p, exp |-> 0, etag |-> lock.etag + 1]
  /\ Finish(p, IF loc[p].err THEN "raised" ELSE "ok")
  /\ UNCHANGED <<jsonl, tmp, muts, idx, bloom, now, nextUid, budget, config, lastTs, cache, acked>>

\* releaseLock in the finally clause: putIfMatch of expiresAt = 0 against
\* the held version; a failure is swallowed. Then the body's result or
\* error goes to the caller.
ReleaseLock(p) ==
  /\ pc[p] = "rel"
  /\ lock' = IF lock.etag = loc[p].etag
             THEN [ex |-> TRUE, sid |-> p, exp |-> 0, etag |-> lock.etag + 1]
             ELSE lock
  /\ Finish(p, IF loc[p].err THEN "raised" ELSE "ok")
  /\ UNCHANGED <<jsonl, tmp, muts, idx, bloom, now, nextUid, budget, config, lastTs, cache, acked>>

\* -------------------------------------------------- compactor: compact()
\* A list step after which workDone is true whatever the listing held.
CompactListAlwaysWork(p) ==
  /\ pc[p] = "c_list"
  /\ loc' = [loc EXCEPT ![p].keys = DriverList,
                        ![p].recs = FetchAll(DriverList),
                        ![p].seen = nextUid]
  /\ pc' = [pc EXCEPT ![p] = "c_append"]
  /\ UNCHANGED <<storage, now, nextUid, budget, config, lastTs, cache, res, acked>>

\* One list pass: list the mutation keys and fetch their bodies.
CompactList(p) ==
  /\ pc[p] = "c_list"
  /\ loc' = [loc EXCEPT ![p].keys = DriverList,
                        ![p].recs = FetchAll(DriverList),
                        ![p].seen = nextUid]
  /\ pc' = [pc EXCEPT ![p] = IF DriverList = <<>> THEN "build" ELSE "c_append"]
  /\ UNCHANGED <<storage, now, nextUid, budget, config, lastTs, cache, res, acked>>

\* A pass that goes on to the delete without having appended.
CompactAppendSkipped(p) ==
  /\ pc[p] = "c_append"
  /\ pc' = [pc EXCEPT ![p] = "c_delete"]
  /\ UNCHANGED <<storage, now, nextUid, budget, config, lastTs, cache, loc, res, acked>>

\* flushBuffer: append the buffered lines to C.jsonl.
CompactAppend(p) ==
  /\ pc[p] = "c_append"
  /\ jsonl' = IF loc[p].recs = <<>> THEN jsonl ELSE DriverAppend(jsonl, loc[p].recs)
  /\ pc' = [pc EXCEPT ![p] = "c_delete"]
  /\ UNCHANGED <<tmp, muts, lock, idx, bloom, now, nextUid, budget, config, lastTs, cache, loc, res, acked>>

\* A delete step that removes every mutation blob, listed or not.
CompactDeleteAll(p) ==
  /\ pc[p] = "c_delete"
  /\ muts' = {}
  /\ pc' = [pc EXCEPT ![p] = "c_list"]
  /\ UNCHANGED <<jsonl, tmp, lock, idx, bloom, now, nextUid, budget, config, lastTs, cache, loc, res, acked>>

\* driver.delete of the keys of the pass, then the next pass.
CompactDelete(p) ==
  /\ pc[p] = "c_delete"
  /\ muts' = {b \in muts : \A n \in 1..Len(loc[p].keys) : loc[p].keys[n] # b.key}
  /\ pc' = [pc EXCEPT ![p] = "c_list"]
  /\ UNCHANGED <<jsonl, tmp, lock, idx, bloom, now, nextUid, budget, config, lastTs, cache, loc, res, acked>>

\* buildBloomFilterAndIndex: one pass over C.jsonl, then C.idx and C.bloom.
buildBloomFilterAndIndex(p) ==
  /\ pc[p] = "build"
  /\ IF jsonl.ex
     THEN /\ idx' = [ex |-> TRUE, map |-> IndexOf(jsonl.lines)]
          /\ bloom' = IF useBloomFilter
                      THEN [ex |-> TRUE, bits |-> BloomOf(jsonl.lines)]
                      ELSE bloom
     ELSE UNCHANGED <<idx, bloom>>
  /\ pc' = [pc EXCEPT ![p] = "rel"]
  /\ UNCHANGED <<jsonl, tmp, muts, lock, now, nextUid, budget, config, lastTs, cache, loc, res, acked>>

\* --------------------------------------------------- compactor: vacuum()
TrackerHas(tr, i) == \E n \in 1..Len(tr) : tr[n].id = i

TrackerDrop(tr, i) == SelectSeq(tr, LAMBDA e : e.id # i)

\* LRUCache.set
TrackerSet(tr, cap, e) ==
  IF TrackerHas(tr, e.id) THEN Append(TrackerDrop(tr, e.id), e)
  ELSE IF Len(tr) >= cap THEN Append(Tail(tr), e)
  ELSE Append(tr, e)

\* Pass 1 over lines n..Len(ls): the LRU tracker and the overflow set.
\* An id is a non-empty string, so the evicted oldestId is always recorded.
\* A line that does not parse is passed over.
RECURSIVE Pass1(_, _, _, _, _)
Pass1(ls, n, cap, tr, ov) ==
  IF n > Len(ls) THEN [tracker |-> tr, overflow |-> ov]
  ELSE IF ls[n].id = 0 THEN Pass1(ls, n + 1, cap, tr, ov)
  ELSE LET r == ls[n]
           ov2 == IF ~TrackerHas(tr, r.id) /\ Len(tr) >= cap
                  THEN ov \cup {tr[1].id} ELSE ov
           tr2 == TrackerSet(tr, cap, [id |-> r.id, lineNum |-> n,
                                       deleted |-> (r.data = NULL)])
       IN Pass1(ls, n + 1, cap, tr2, ov2)

\* Pass 2: shouldKeep of line n.
shouldKeep(ls, n, tr, ov) ==
  IF ls[n].id \in ov THEN ls[n].data # NULL
  ELSE \E k \in 1..Len(tr) :
         tr[k].id = ls[n].id /\ tr[k].lineNum = n /\ ~tr[k].deleted

Pass2(ls, tr, ov) ==
  LET keep == {n \in 1..Len(ls) : shouldKeep(ls, n, tr, ov)}
      F[n \in 0..Len(ls)] ==
        IF n = 0 THEN <<>>
        ELSE IF n \in keep THEN Append(F[n - 1], ls[n]) ELSE F[n - 1]
  IN F[Len(ls)]

\* size() check, then the temp file is cleared.
VacuumInit(p) ==
  /\ pc[p] = "v_init"
  /\ IF ~jsonl.ex \/ jsonl.lines = <<>>
     THEN /\ pc' = [pc EXCEPT ![p] = "rel"]
          /\ UNCHANGED tmp
     ELSE /\ tmp' = File(<<>>)
          /\ pc' = [pc EXCEPT ![p] = "v_pass1"]
  /\ UNCHANGED <<jsonl, muts, lock, idx, bloom, now, nextUid, budget, config, lastTs, cache, loc, res, acked>>

VacuumPass1(p) ==
  /\ pc[p] = "v_pass1"
  /\ IF ~jsonl.ex
     THEN /\ pc' = [pc EXCEPT ![p] = "rel"]
          /\ UNCHANGED loc
     ELSE LET r == Pass1(jsonl.lines, 1, vacuumCacheSize, <<>>, {})
          IN /\ loc' = [loc EXCEPT ![p].tracker = r.tracker,
                                   ![p].overflow = r.overflow]
             /\ pc' = [pc EXCEPT ![p] = "v_pass2"]
  /\ UNCHANGED <<storage, now, nextUid, budget, config, lastTs, cache, res, acked>>

VacuumPass2(p) ==
  /\ pc[p] = "v_pass2"
  /\ IF ~jsonl.ex
     THEN /\ pc' = [pc EXCEPT ![p] = "rel"]
          /\ UNCHANGED tmp
     ELSE LET kept == Pass2(jsonl.lines, loc[p].tracker, loc[p].overflow)
          IN /\ tmp' = IF kept = <<>> THEN tmp ELSE DriverAppend(tmp, kept)
             /\ pc' = [pc EXCEPT ![p] = "v_trunc"]
  /\ UNCHANGED <<jsonl, muts, lock, idx, bloom, now, nextUid, budget, config, lastTs, cache, loc, res, acked>>

\* The characters of a file with lines ls, from line n on: each character
\* is written as the number of its line and a newline as 0.
RECURSIVE FileBytes(_, _)
FileBytes(ls, n) ==
  IF n > Len(ls) THEN <<>>
  ELSE (IF n = 1 THEN <<>> ELSE <<0>>)
         \o [j \in 1..LineLen(ls[n]) |-> n] \o FileBytes(ls, n + 1)

\* The line a run of characters between two newlines makes: the record
\* when the run is its whole line, a fragment when it is a part of it, the
\* empty line when the run is empty.
PieceLine(ls, cur) ==
  IF cur = <<>> THEN Blank
  ELSE IF Len(cur) = LineLen(ls[cur[1]]) THEN ls[cur[1]]
  ELSE Fragment

\* The lines that the characters bs, written to a file as one piece of
\* data, make; cur is the run collected so far.
RECURSIVE SplitLines(_, _, _)
SplitLines(ls, bs, cur) ==
  IF bs = <<>> THEN <<PieceLine(ls, cur)>>
  ELSE IF Head(bs) = 0
  THEN <<PieceLine(ls, cur)>> \o SplitLines(ls, Tail(bs), <<>>)
  ELSE SplitLines(ls, Tail(bs), Append(cur, Head(bs)))

\* The number of chunks the stream of a file with lines ls hands out.
NumChunks(ls) ==
  (Len(FileBytes(ls, 1)) + CopyBufferSize - 1) \div CopyBufferSize

\* Chunk k of the stream of a file with lines ls.
Chunk(ls, k) ==
  LET b == FileBytes(ls, 1)
      last == IF k * CopyBufferSize < Len(b) THEN k * CopyBufferSize ELSE Len(b)
  IN SubSeq(b, (k - 1) * CopyBufferSize + 1, last)

\* Swap, first half: open the temp file and truncate C.jsonl.
VacuumTruncate(p) ==
  /\ pc[p] = "v_trunc"
  /\ IF tmp.ex
     THEN /\ jsonl' = File(<<>>)
          /\ loc' = [loc EXCEPT ![p].recs = tmp.lines]
          /\ pc' = [pc EXCEPT ![p] = "v_copy"]
     ELSE /\ pc' = [pc EXCEPT ![p] = "build"]
          /\ UNCHANGED <<jsonl, loc>>
  /\ UNCHANGED <<tmp, muts, lock, idx, bloom, now, nextUid, budget, config, lastTs, cache, res, acked>>

\* Swap, second half: each chunk of the temp stream fills the buffer and
\* is appended to C.jsonl as it stands, one driver.append per chunk; after
\* the last chunk the temp file is deleted.
VacuumCopy(p) ==
  /\ pc[p] = "v_copy"
  /\ IF loc[p].copied < NumChunks(loc[p].recs)
     THEN /\ jsonl' = DriverAppend(jsonl,
                         SplitLines(loc[p].recs,
                                    Chunk(loc[p].recs, loc[p].copied + 1), <<>>))
          /\ loc' = [loc EXCEPT ![p].copied = @ + 1]
          /\ UNCHANGED <<tmp, pc>>
     ELSE /\ tmp' = NoFile
          /\ pc' = [pc EXCEPT ![p] = "build"]
          /\ UNCHANGED <<jsonl, loc>>
  /\ UNCHANGED <<muts, lock, idx, bloom, now, nextUid, budget, config, lastTs, cache, res, acked>>

\* ------------------------------------------------------------------ time
Tick ==
  /\ now < MaxTime
  /\ now' = now + 1
  /\ UNCHANGED <<storage, nextUid, budget, config, lastTs, cache, pc, loc, res, acked>>

\* --------------------------------------------------------- specification
\* Concurrent processes and a clock, from an empty store.
Init == InitWith([w |-> 1, g |-> MaxGets, m |-> MaxMaint,
                  f |-> FALSE, solo |-> FALSE, vec |-> FALSE, auto |-> FALSE, ttl |-> <<>>, d |-> 0, t |-> 0], {NumIds})

Next ==
  \/ Tick
  \/ \E p \in Procs :
       \/ Put(p)
       \/ Delete(p)
       \/ GetStart(p)
       \/ ReadMain(p)
       \/ ReadBlobs(p)
       \/ AcquireLock(p, "compact")
       \/ AcquireLock(p, "vacuum")
       \/ Takeover(p)
       \/ CompactList(p)
       \/ CompactAppend(p)
       \/ CompactDelete(p)
       \/ buildBloomFilterAndIndex(p)
       \/ VacuumInit(p)
       \/ VacuumPass1(p)
       \/ VacuumPass2(p)
       \/ VacuumTruncate(p)
       \/ VacuumCopy(p)
       \/ ReleaseLock(p)

Spec == Init /\ [][Next]_vars

\* Calls issued one at a time, within one millisecond.
InitSeq == InitWith([w |-> MaxWrites, g |-> MaxGets, m |-> MaxMaint,
                     f |-> FALSE, solo |-> TRUE, vec |-> FALSE, auto |-> FALSE, ttl |-> <<>>, d |-> 0, t |-> 0], {NumIds})

NextSeq ==
  \E p \in Procs :
    \/ Put(p)
    \/ Delete(p)
    \/ GetStart(p)
    \/ ReadMain(p)
    \/ ReadBlobs(p)
    \/ AcquireLock(p, "compact")
    \/ AcquireLock(p, "vacuum")
    \/ Takeover(p)
    \/ CompactList(p)
    \/ CompactAppend(p)
    \/ CompactDelete(p)
    \/ buildBloomFilterAndIndex(p)
    \/ VacuumInit(p)
    \/ VacuumPass1(p)
    \/ VacuumPass2(p)
    \/ VacuumTruncate(p)
    \/ VacuumCopy(p)
    \/ ReleaseLock(p)

SpecSeq == InitSeq /\ [][NextSeq]_vars

\* Writers only, over a store whose put may fail, with retryOptions set.
InitWrite == InitWith([w |-> 1, g |-> 0, m |-> 0,
                       f |-> TRUE, solo |-> FALSE, vec |-> FALSE, auto |-> FALSE, ttl |-> <<>>, d |-> 0, t |-> 0], {NumIds})

NextWrite ==
  \/ Tick
  \/ \E p \in Procs :
       \/ Put(p)
       \/ Delete(p)
       \/ Batch(p)

SpecWrite == InitWrite /\ [][NextWrite]_vars

\* The snapshots vacuum() is run on: record n of the file has ts n and,
\* unless it is a tombstone, the data n.
SnapLines ==
  {[n \in DOMAIN f |-> Rec(f[n][1], IF f[n][2] THEN NULL ELSE n, n)] :
     f \in UNION {[1..len -> Ids \X BOOLEAN] : len \in 1..MaxLines}}

\* A compacted collection: snapshot, index and bloom filter as the last
\* compaction left them, its lock released, no pending mutation.
InitVacuum ==
  /\ InitDb([w |-> 0, g |-> 0, m |-> MaxMaint, f |-> FALSE, solo |-> TRUE, vec |-> FALSE, auto |-> FALSE, ttl |-> <<>>, d |-> 0, t |-> 0],
            1..NumIds)
  /\ \E ls \in SnapLines :
       /\ jsonl = File(ls)
       /\ idx = [ex |-> TRUE, map |-> IndexOf(ls)]
       /\ bloom = IF useBloomFilter THEN [ex |-> TRUE, bits |-> BloomOf(ls)]
                  ELSE NoBloom
  /\ muts = {}
  /\ lock = [ex |-> TRUE, sid |-> 1, exp |-> 0, etag |-> 2]

NextVacuum ==
  \E p \in Procs :
    \/ AcquireLock(p, "vacuum")
    \/ Takeover(p)
    \/ VacuumInit(p)
    \/ VacuumPass1(p)
    \/ VacuumPass2(p)
    \/ VacuumTruncate(p)
    \/ VacuumCopy(p)
    \/ buildBloomFilterAndIndex(p)
    \/ ReleaseLock(p)

SpecVacuum == InitVacuum /\ [][NextVacuum]_vars

\* ============================================================ properties
Idle == \A p \in Procs : pc[p] = "idle"

\* Every record of the collection: snapshot lines and pending blobs.
AllRecs ==
  {jsonl.lines[n] : n \in 1..Len(jsonl.lines)}
    \cup UNION {{b.body[n] : n \in 1..Len(b.body)} : b \in muts}

RecsOf(k) == {r \in AllRecs : r.id = k}

\* The data of the records for k that carry the largest ts.
LatestByTs(k) ==
  {r.data : r \in {x \in RecsOf(k) : \A y \in RecsOf(k) : y.ts <= x.ts}}

\* C1: once every write has acknowledged, get(k) is the data of the record
\* with the largest ts for k over snapshot and pending blobs (absent for a
\* tombstone or when k has no record), for every reader and every k; stated
\* for the scan path, with the bloom filter and the index switched off.
C1_LastWriterWinsByTs ==
  (Idle /\ ~useIndex /\ ~useBloomFilter) =>
    \A p \in Procs, k \in Ids :
      IF RecsOf(k) = {} THEN GetNow(p, k) = NULL
      ELSE GetNow(p, k) \in LatestByTs(k)

\* A process is executing the function passed to withLock.
\* C2: at no time are two processes inside the body of a compaction or a
\* vacuum of the collection.
C2_MutualExclusion ==
  \A p \in Procs, q \in Procs : (InBody(p) /\ InBody(q)) => p = q

\* C3: a get that went through read() and started after a put of its id had
\* returned, no delete of that id having been issued, does not answer
\* absent, whatever compaction or vacuum ran during the read.
C3_ReadsReflectAckedWrites ==
  (/\ res.op = "get" /\ res.path = "scan"
   /\ \E r \in res.acked0 : r.id = res.id
   /\ \A r \in acked : r.id = res.id => r.data # NULL)
  => res.val # NULL

\* The blobs in storage that the last write call put.
BlobsOfCall == {b \in muts : b.key[2] = res.uid}

\* C4: a put/delete/batch that returned has left exactly one mutation blob,
\* holding all records of the call; one that raised has left none.
C4_WriteAtomic ==
  res.op \in {"put", "delete", "batch"} =>
    IF res.status = "ok"
    THEN /\ Cardinality(BlobsOfCall) = 1
         /\ \A b \in BlobsOfCall : b.body = res.recs
    ELSE BlobsOfCall = {}

\* C5: right after put(x) returned, get(x.id) by the same process answers x,
\* for every earlier history and every useIndex and useBloomFilter; stated
\* for a put whose record carries the largest ts of its id, where stream
\* order and ts order agree.
C5_PutThenGet ==
  (/\ Idle /\ res.op = "put" /\ res.status = "ok"
   /\ \A r \in RecsOf(res.id) : r = res.recs[1] \/ r.ts < res.recs[1].ts)
  => GetNow(res.by, res.id) = res.val

C7_VacuumPreservesReads ==
  (Idle /\ res.op = "vacuum" /\ res.status = "ok") =>
    /\ Observe.count = res.pre.count
    /\ Observe.gets = res.pre.gets

\* The ids whose latest snapshot record carried data before the last call.
LiveBefore == {i \in Ids : res.pre.snap[i] # NULL}

\* C8: right after a vacuum() returned, every id that was live before it
\* still resolves to the same value, in the snapshot and for every reader,
\* whatever vacuumCacheSize >= 1.
C8_VacuumKeepsLiveIds ==
  (Idle /\ res.op = "vacuum" /\ res.status = "ok") =>
    \A i \in LiveBefore :
      /\ ScanGet(jsonl.lines, i) = res.pre.snap[i]
      /\ \A q \in Procs : GetNow(q, i) = res.pre.snap[i]

\* C9: a get that starts while a mutation blob exists goes through read():
\* neither the bloom filter nor the index answers it.
C9_PendingBypassesIndexAndBloom ==
  (res.op = "get" /\ res.pend) => res.path = "scan"

\* C10: whenever no mutation blob exists, a stored index maps exactly the
\* live ids to the span of their latest line in the snapshot, and a stored
\* bloom filter contains every live id.
C10_IndexAndBloomCurrent ==
  muts = {} =>
    /\ idx.ex => idx.map = IndexOf(jsonl.lines)
    /\ bloom.ex => \A i \in LiveIds(jsonl.lines) : mightContain(bloom, i)

\* compact() and vacuum() calls racing for the lock of a collection whose
\* lock blob was left released by an earlier compact() of the empty
\* collection; the clock advances and a driver call inside the body may
\* fail.
InitLock ==
  /\ InitDb([w |-> 0, g |-> 0, m |-> MaxMaint, f |-> TRUE, solo |-> FALSE,
             vec |-> FALSE, auto |-> FALSE, ttl |-> <<>>, d |-> 0, t |-> 0], {NumIds})
  /\ jsonl = NoFile /\ muts = {} /\ idx = NoIdx /\ bloom = NoBloom
  /\ lock = [ex |-> TRUE, sid |-> 1, exp |-> 0, etag |-> 2]

NextLock ==
  \/ Tick
  \/ \E p \in Procs :
       \/ AcquireLock(p, "compact")
       \/ AcquireLock(p, "vacuum")
       \/ Takeover(p)
       \/ CompactList(p)
       \/ buildBloomFilterAndIndex(p)
       \/ VacuumInit(p)
       \/ BodyFails(p)
       \/ ReleaseLock(p)

SpecLock == InitLock /\ [][NextLock]_vars

\* A collection with autoCompact and autoVacuum on: one write that fires a
\* background maintenance loop, beside one compact() call of the
\* application; a driver call inside a body may fail. The clock stands
\* still, so a lock that is held stays active.
InitAuto ==
  /\ InitWith([w |-> 1, g |-> 0, m |-> 1, f |-> TRUE, solo |-> FALSE,
               vec |-> FALSE, auto |-> TRUE, ttl |-> <<>>, d |-> 0, t |-> 0], {NumIds})
  /\ ~useIndex /\ ~useBloomFilter

NextAuto ==
  \E p \in Procs :
    \/ Put(p)
    \/ AutoTrigger(p, "compact")
    \/ AutoTrigger(p, "vacuum")
    \/ AutoAcquire(p)
    \/ AcquireLock(p, "compact")
    \/ Takeover(p)
    \/ CompactList(p)
    \/ CompactAppend(p)
    \/ CompactDelete(p)
    \/ buildBloomFilterAndIndex(p)
    \/ VacuumInit(p)
    \/ VacuumPass1(p)
    \/ VacuumPass2(p)
    \/ VacuumTruncate(p)
    \/ VacuumCopy(p)
    \/ BodyFails(p)
    \/ ReleaseLock(p)

SpecAuto == InitAuto /\ [][NextAuto]_vars

\* The values the ttlField of a document takes: undefined, or a time the
\* clock reaches and passes.
ExpiryTimes == {NULL, MaxTime - 1}

\* A collection with a ttlField: two puts and one compact(), one call at a
\* time, while the clock advances; every document that will be put has its
\* ttlField drawn. The bloom filter, whose path hands out no document, is
\* off.
InitTtl ==
  /\ \E t \in [{DataOf(u, 1) : u \in 1..2} -> ExpiryTimes] :
       InitWith([w |-> 2, g |-> 0, m |-> 1, f |-> FALSE, solo |-> TRUE,
                 vec |-> FALSE, auto |-> FALSE, ttl |-> t, d |-> 0, t |-> 0], {NumIds})
  /\ ~useBloomFilter

NextTtl ==
  \/ Tick
  \/ \E p \in Procs :
       \/ Put(p)
       \/ AcquireLock(p, "compact")
       \/ CompactList(p)
       \/ CompactAppend(p)
       \/ CompactDelete(p)
       \/ buildBloomFilterAndIndex(p)
       \/ ReleaseLock(p)

SpecTtl == InitTtl /\ [][NextTtl]_vars

\* A collection with a ttlField: two puts and one deleteExpired by
\* processes running side by side while the clock advances.
InitExpire ==
  /\ \E t \in [{DataOf(u, 1) : u \in 1..3} -> ExpiryTimes] :
       InitWith([w |-> 2, g |-> 0, m |-> 0, f |-> FALSE, solo |-> FALSE,
                 vec |-> FALSE, auto |-> FALSE, ttl |-> t, d |-> 1, t |-> 0], {NumIds})
  /\ ~useIndex /\ ~useBloomFilter

NextExpire ==
  \/ Tick
  \/ \E p \in Procs :
       \/ Put(p)
       \/ DeleteExpiredRead(p)
       \/ DeleteExpiredWrite(p)

SpecExpire == InitExpire /\ [][NextExpire]_vars

\* Time travel: two puts or deletes, one compact() and one get with a bound
\* at, one call at a time, while the clock advances.
InitAt ==
  /\ InitWith([w |-> 2, g |-> 1, m |-> 1, f |-> FALSE, solo |-> TRUE,
               vec |-> FALSE, auto |-> FALSE, ttl |-> <<>>, d |-> 0, t |-> 0], {NumIds})
  /\ ~useIndex /\ ~useBloomFilter

NextAt ==
  \/ Tick
  \/ \E p \in Procs :
       \/ Put(p)
       \/ Delete(p)
       \/ GetAt(p)
       \/ AcquireLock(p, "compact")
       \/ CompactList(p)
       \/ CompactAppend(p)
       \/ CompactDelete(p)
       \/ buildBloomFilterAndIndex(p)
       \/ ReleaseLock(p)

SpecAt == InitAt /\ [][NextAt]_vars

\* A collection whose snapshot is absent or holds one line, its lock
\* released: one write and one maintenance call (compact or vacuum) by
\* processes running side by side; a driver call inside a body may fail and
\* abort it.
InitAppend ==
  /\ InitDb([w |-> 1, g |-> 0, m |-> 1, f |-> TRUE, solo |-> FALSE,
             vec |-> FALSE, auto |-> FALSE, ttl |-> <<>>, d |-> 0, t |-> 0], {1})
  /\ ~useIndex /\ ~useBloomFilter
  /\ jsonl \in {NoFile} \cup {File(ls) : ls \in {l \in SnapLines : Len(l) = 1}}
  /\ idx = NoIdx /\ bloom = NoBloom
  /\ muts = {}
  /\ lock = [ex |-> TRUE, sid |-> 1, exp |-> 0, etag |-> 2]

NextAppend ==
  \E p \in Procs :
    \/ Put(p)
    \/ Delete(p)
    \/ AcquireLock(p, "compact")
    \/ AcquireLock(p, "vacuum")
    \/ Takeover(p)
    \/ CompactList(p)
    \/ CompactAppend(p)
    \/ CompactDelete(p)
    \/ buildBloomFilterAndIndex(p)
    \/ VacuumInit(p)
    \/ VacuumPass1(p)
    \/ VacuumPass2(p)
    \/ VacuumTruncate(p)
    \/ VacuumCopy(p)
    \/ BodyFails(p)
    \/ ReleaseLock(p)

SpecAppend == InitAppend /\ [][NextAppend]_vars

\* Snapshots of up to MaxLines + 1 records over two ids: long enough for an
\* id to be written three times before another id arrives.
LongSnapLines ==
  {[n \in DOMAIN f |-> Rec(f[n][1], IF f[n][2] THEN NULL ELSE n, n)] :
     f \in UNION {[1..len -> (1..2) \X BOOLEAN] : len \in 1..(MaxLines + 1)}}

\* A compacted collection without index and bloom filter, its lock
\* released, and one vacuum().
InitBound ==
  /\ InitDb([w |-> 0, g |-> 0, m |-> 1, f |-> FALSE, solo |-> TRUE,
             vec |-> FALSE, auto |-> FALSE, ttl |-> <<>>, d |-> 0, t |-> 0], 1..NumIds)
  /\ ~useIndex /\ ~useBloomFilter
  /\ \E ls \in LongSnapLines : jsonl = File(ls)
  /\ idx = NoIdx /\ bloom = NoBloom
  /\ muts = {}
  /\ lock = [ex |-> TRUE, sid |-> 1, exp |-> 0, etag |-> 2]

NextBound ==
  \E p \in Procs :
    \/ AcquireLock(p, "vacuum")
    \/ Takeover(p)
    \/ VacuumInit(p)
    \/ VacuumPass1(p)
    \/ VacuumPass2(p)
    \/ VacuumTruncate(p)
    \/ VacuumCopy(p)
    \/ buildBloomFilterAndIndex(p)
    \/ ReleaseLock(p)

SpecBound == InitBound /\ [][NextBound]_vars

\* A vector collection: one put, delete or batch whose vectors are drawn
\* from Vectors, while the clock advances.
InitVec ==
  /\ InitWith([w |-> 1, g |-> 0, m |-> 0, f |-> FALSE, solo |-> FALSE,
               vec |-> TRUE, auto |-> FALSE, ttl |-> <<>>, d |-> 0, t |-> 0], {NumIds})
  /\ ~useIndex /\ ~useBloomFilter

NextVec ==
  \/ Tick
  \/ \E p \in Procs :
       \/ VectorPut(p)
       \/ VectorDelete(p)
       \/ VectorBatch(p)

SpecVec == InitVec /\ [][NextVec]_vars

\* A collection whose snapshot is absent or holds one line, compacted, its
\* lock released: one db.transaction with up to two writes, and
\* transactions nested inside it.
InitTx ==
  /\ InitDb([w |-> 2, g |-> 0, m |-> 0, f |-> FALSE, solo |-> TRUE,
             vec |-> FALSE, auto |-> FALSE, ttl |-> <<>>, d |-> 0, t |-> 1],
            {NumIds})
  /\ \/ /\ jsonl = NoFile /\ idx = NoIdx /\ bloom = NoBloom
        /\ lock = NoLock
     \/ /\ \E ls \in {l \in SnapLines : Len(l) = 1} :
             /\ jsonl = File(ls)
             /\ idx = [ex |-> TRUE, map |-> IndexOf(ls)]
             /\ bloom = IF useBloomFilter
                        THEN [ex |-> TRUE, bits |-> BloomOf(ls)]
                        ELSE NoBloom
        /\ lock = [ex |-> TRUE, sid |-> 1, exp |-> 0, etag |-> 2]
  /\ muts = {}

NextTx ==
  \E p \in Procs :
    \/ TxBegin(p)
    \/ TxPut(p)
    \/ TxDelete(p)
    \/ TxNested(p)
    \/ TxNestedReturn(p)
    \/ TxCommit(p)
    \/ TxThrow(p)
    \/ TxCompensate(p)
    \/ TxRejected(p)

SpecTx == InitTx /\ [][NextTx]_vars

\* Date.now() between two calls: the wall clock advances or is set back.
ClockSet ==
  /\ \E t \in 1..MaxTime : t # now /\ now' = t
  /\ UNCHANGED <<storage, nextUid, budget, config, lastTs, cache, pc, loc, res, acked>>

\* Two write calls on a Collection or on a VectorCollection under a wall
\* clock that may stand still, advance or go back between them.
InitClock ==
  /\ \E v \in BOOLEAN :
       InitWith([w |-> 2, g |-> 0, m |-> 0, f |-> FALSE, solo |-> FALSE,
                 vec |-> v, auto |-> FALSE, ttl |-> <<>>, d |-> 0, t |-> 0], {NumIds})
  /\ ~useIndex /\ ~useBloomFilter

NextClock ==
  \/ ClockSet
  \/ \E p \in Procs :
       \/ Put(p)
       \/ Delete(p)
       \/ VectorPut(p)
       \/ VectorDelete(p)

SpecClock == InitClock /\ [][NextClock]_vars

\* Two write calls in a row (put, delete or batch) on a store that starts
\* empty, every driver.put succeeding; the fast paths of get are off.
InitBatch ==
  /\ InitWith([w |-> 2, g |-> 0, m |-> 0, f |-> FALSE, solo |-> FALSE, vec |-> FALSE, auto |-> FALSE, ttl |-> <<>>, d |-> 0, t |-> 0],
              {NumIds})
  /\ ~useIndex /\ ~useBloomFilter

NextBatch ==
  \E p \in Procs :
    \/ Put(p)
    \/ Delete(p)
    \/ Batch(p)

SpecBatch == InitBatch /\ [][NextBatch]_vars

\* compact() with writers running beside it: two writes and two compact()
\* calls on a store that starts empty; the clock stands still, so no lease
\* expires.
InitCompact == InitWith([w |-> 2, g |-> 0, m |-> 2,
                         f |-> FALSE, solo |-> FALSE, vec |-> FALSE, auto |-> FALSE, ttl |-> <<>>, d |-> 0, t |-> 0], {NumIds})

NextCompact ==
  \E p \in Procs :
    \/ Put(p)
    \/ Delete(p)
    \/ AcquireLock(p, "compact")
    \/ Takeover(p)
    \/ CompactList(p)
    \/ CompactAppend(p)
    \/ CompactDelete(p)
    \/ buildBloomFilterAndIndex(p)
    \/ ReleaseLock(p)

SpecCompact == InitCompact /\ [][NextCompact]_vars

\* The lines of the snapshot that carry id i.
LinesOf(i) == {n \in 1..Len(jsonl.lines) : jsonl.lines[n].id = i}

\* C11: right after a vacuum() returned, an id that was live before it has
\* at most one line, its latest non-tombstone record, and an id whose latest
\* record was a tombstone (or that had no record) has no line.
C11_VacuumDedupes ==
  (Idle /\ res.op = "vacuum" /\ res.status = "ok") =>
    \A i \in Ids :
      IF i \in LiveBefore
      THEN /\ Cardinality(LinesOf(i)) <= 1
           /\ \A n \in LinesOf(i) : jsonl.lines[n].data = res.pre.snap[i]
      ELSE LinesOf(i) = {}

\* The records of the snapshot.
Merged(file) == {file.lines[n] : n \in 1..Len(file.lines)}

C13_SizeLimitLeavesStorage ==
  [][(res'.uid # res.uid /\ EncodedLen(res'.recs) > MaxMutationSize) =>
       (res'.status = "SizeLimitError" /\ UNCHANGED storage)]_vars

\* A batch was rejected for its size while an earlier write is pending.
C13_Witness ==
  /\ res.op = "batch" /\ res.status = "SizeLimitError"
  /\ EncodedLen(res.recs) > MaxMutationSize
  /\ muts # {}

\* What a reader streams when the mutation blobs are M: C.jsonl, then the
\* bodies of M in key order.
RECURSIVE BodiesOf(_)
BodiesOf(M) ==
  IF M = {} THEN <<>>
  ELSE LET m == CHOOSE b \in M : \A o \in M \ {b} : KeyLess(b.key, o.key)
       IN m.body \o BodiesOf(M \ {m})

StreamWith(M) == jsonl.lines \o BodiesOf(M)

\* The blobs that put / delete calls issued one after another by one process
\* leave, one call per record of recs, starting with call number uid and
\* process clock last; every driver.put returns at its first attempt.
RECURSIVE SeqBlobs(_, _, _)
SeqBlobs(recs, uid, last) ==
  IF recs = <<>> THEN {}
  ELSE LET ts == monotonicTimestamp(last)
           r == Head(recs)
       IN {[key |-> <<KeyTs(ts, 1), uid, 1>>,
            body |-> <<Rec(r.id, r.data, ts)>>]}
          \cup SeqBlobs(Tail(recs), uid + 1, KeyTs(ts, 1))

\* C14: a batch() that returned leaves every id with the value, and the
\* collection with the count, that its operations issued one by one would
\* leave, also for several operations on one id; it has put at most one
\* mutation blob and its records share one ts.
C14_BatchEquivalent ==
  [][(res'.uid # res.uid /\ res'.op = "batch" /\ res'.status = "ok") =>
       LET seq == muts \cup SeqBlobs(res'.recs, nextUid, lastTs[res'.by])
       IN /\ \A i \in Ids :
               ScanGet(StreamWith(muts'), i) = ScanGet(StreamWith(seq), i)
          /\ CountOf(StreamWith(muts')) = CountOf(StreamWith(seq))
          /\ Cardinality(muts' \ muts) <= 1
          /\ \A n \in 1..Len(res'.recs) : res'.recs[n].ts = res'.recs[1].ts]_vars

\* C15: of two write calls a process issues one after the other, on a
\* Collection or a VectorCollection, the second stamps its records with a
\* ts strictly larger than the first's, whatever the wall clock did between.
C15_MonotoneTs ==
  [][(res'.uid # res.uid /\ res.uid # 0 /\ res'.by = res.by) =>
       \A m \in 1..Len(res.recs), n \in 1..Len(res'.recs) :
         res'.recs[n].ts > res.recs[m].ts]_vars

\* The pending records for id k.
PendingOf(k) == {r \in Merged([lines |-> FetchAll(DriverList)]) : r.id = k}

\* C16: when the snapshot's last record for k is a tombstone and every
\* pending mutation record for k carries a smaller ts, get(k) answers absent
\* and k is not counted (fast paths off).
C16_TombstoneNotResurrected ==
  (Idle /\ ~useIndex /\ ~useBloomFilter) =>
    \A k \in Ids :
      (/\ k \in IdsOf(jsonl.lines)
       /\ jsonl.lines[LastLine(jsonl.lines, k)].data = NULL
       /\ \A r \in PendingOf(k) :
            r.ts < jsonl.lines[LastLine(jsonl.lines, k)].ts)
      => /\ \A p \in Procs : GetNow(p, k) = NULL
         /\ ScanGet(jsonl.lines \o FetchAll(DriverList), k) = NULL

\* C17: a call whose takeover putIfMatch fails ends with LockActiveError.
C17_TakeoverFailureIsLockActive ==
  [][\A p \in Procs :
       (pc[p] = "takeover" /\ pc'[p] = "idle") =>
         res'.status = "LockActiveError"]_vars

C19_TakeoverAtBoundary ==
  [][(budget'.m # budget.m /\ lock.ex) =>
       IF lock.exp <= now
       THEN \E p \in Procs : pc[p] = "idle" /\ pc'[p] = "takeover"
       ELSE /\ res'.status = "LockActiveError"
            /\ UNCHANGED <<lock, pc>>]_vars

\* C19 with the boundary moved: a call that finds a lock with
\* expiresAt < now goes on to take it over with putIfMatch, and a takeover
\* that succeeds enters the body; a call that finds expiresAt >= now raises
\* LockActiveError and leaves the lock alone.
C19_TakeoverAfterExpiry ==
  [][/\ (budget'.m # budget.m /\ lock.ex) =>
          IF lock.exp < now
          THEN \E p \in Procs : pc[p] = "idle" /\ pc'[p] = "takeover"
          ELSE /\ res'.status = "LockActiveError"
               /\ UNCHANGED <<lock, pc>>
     /\ \A p \in Procs :
          (pc[p] = "takeover" /\ pc'[p] # "takeover" /\ lock' # lock) =>
            /\ lock.exp < now
            /\ lock'.sid = p /\ lock'.etag = loc[p].etag + 1
            /\ pc'[p] \in {"c_list", "v_init"}]_vars

\* A call found the lock of a running compaction at expiresAt = now and was
\* refused.
C19_Witness ==
  /\ res.status = "LockActiveError"
  /\ lock.exp = now
  /\ \E p \in Procs : InBody(p) /\ lock.sid = p /\ lock.etag > 2

\* C20: an attempt of a background compaction or vacuum that finds the lock
\* held and not expired ends its loop at once: no further attempt, no
\* onError or onMaintenanceFailure call, nothing changed in storage, and
\* the records of the write that fired it are acknowledged.
C20_AutoSkipsOnLockActive ==
  [][\A p \in Procs :
       (pc[p] = "auto" /\ lock.ex /\ ~Expired(lock) /\ loc'[p] # loc[p]) =>
         /\ pc'[p] = "idle" /\ loc'[p] = NoLoc
         /\ res'.by = p /\ res'.auto /\ res'.status = "LockActiveError"
         /\ res'.hooks = 0 /\ res'.fails = 0
         /\ res'.attempts = loc[p].attempt + 1
         /\ \A n \in 1..Len(loc[p].trig) : loc[p].trig[n] \in acked'
         /\ UNCHANGED storage]_vars

\* A background maintenance was skipped because another process is inside
\* a compaction.
C20_Witness ==
  /\ res.auto /\ res.status = "LockActiveError" /\ res.hooks = 0
  /\ res.op \in {"compact", "vacuum"}
  /\ \E q \in Procs : q # res.by /\ InBody(q) /\ lock.sid = q
  /\ acked # {}

Effective(k) == ScanGet(jsonl.lines \o FetchAll(DriverList), k)

\* The claim's notion of expiry: the ttlField is defined and less than now.
ExpiredNow(d) ==
  d \in DOMAIN budget.ttl /\ budget.ttl[d] # NULL /\ budget.ttl[d] < now

\* C22: with a ttlField declared, get never answers an expired document and
\* count (as getMany and find, which filter the same fold) counts exactly
\* the ids whose last record carries data that is not expired; a get that
\* scans answers the last record's data whenever it is not expired, also
\* at the boundary ttl = now.
C22_TtlFilter ==
  /\ \A p \in Procs, k \in Ids :
       /\ GetNow(p, k) # NULL => ~ExpiredNow(GetNow(p, k))
       /\ (~FastPath(p, k).done /\ Effective(k) # NULL
            /\ ~ExpiredNow(Effective(k))) => GetNow(p, k) = Effective(k)
  /\ CountNow =
       Cardinality({k \in Ids : Effective(k) # NULL /\ ~ExpiredNow(Effective(k))})

\* A compacted document sits at its expiry time and is still answered and
\* counted.
C22_Witness ==
  \E k \in Ids :
       /\ Effective(k) # NULL /\ Effective(k) \in DOMAIN budget.ttl
       /\ budget.ttl[Effective(k)] = now
       /\ \A p \in Procs : GetNow(p, k) = Effective(k)
       /\ CountNow = 1 /\ jsonl.lines # <<>> /\ useIndex

\* C23: the write of deleteExpired puts a tombstone for exactly the ids
\* whose effective record is expired at that moment and returns their
\* number; an id whose effective record is not expired keeps it, also when
\* it was written while deleteExpired was running; a deleteExpired that
\* finds nothing expired writes nothing.
C23_DeleteExpiredExact ==
  [][/\ \A p \in Procs :
          (pc[p] = "dx_write" /\ pc'[p] = "idle") =>
            /\ \A k \in Ids :
                 IF Effective(k) # NULL /\ ExpiredNow(Effective(k))
                 THEN Effective(k)' = NULL
                 ELSE Effective(k)' = Effective(k)
            /\ Len(res'.recs) =
                 Cardinality({k \in Ids : Effective(k) # NULL
                                           /\ ExpiredNow(Effective(k))})
     /\ (budget'.d # budget.d /\ pc' = pc) =>
          /\ UNCHANGED storage
          /\ \A k \in Ids : Effective(k) = NULL \/ ~ExpiredNow(Effective(k))]_vars

\* The records of the snapshot and of the pending blobs, in stream order,
\* whose per-record ts is at most at.
RecsUpTo(at) ==
  LET NotAfter(r) == r.ts <= at
  IN SelectSeq(jsonl.lines \o FetchAll(DriverList), NotAfter)

\* C24: for every time-travel bound at, read({ at }) yields exactly the
\* records whose per-record ts is at most at, in the snapshot or in a
\* pending mutation blob, and a get with at answers from exactly those.
C24_TimeTravelExact ==
  /\ \A at \in AtBounds : readAt(at) = RecsUpTo(at)
  /\ res.op = "getAt" =>
       \A r \in {res.recs[n] : n \in 1..Len(res.recs)} : r.ts <= res.at

\* s is a prefix of t.
IsPrefix(s, t) == Len(s) <= Len(t) /\ SubSeq(t, 1, Len(s)) = s

\* The step is taken by a process inside the body of vacuum().
VacuumStep ==
  \E p \in Procs :
    /\ pc[p] \in {"v_init", "v_pass1", "v_pass2", "v_trunc", "v_copy"}
    /\ pc'[p] # pc[p]

\* C25: every step that is not a step of vacuum - a write, a step of a
\* compaction that completes or of one that aborts - leaves the previous
\* content of C.jsonl as a prefix of its new content, and never removes the
\* file.
C25_CompactOnlyAppends ==
  [][~VacuumStep =>
       /\ IsPrefix(jsonl.lines, jsonl'.lines)
       /\ jsonl.ex => jsonl'.ex]_vars

\* A compaction has appended the records of a pass to a snapshot that
\* already held lines.
C25_Witness ==
  \E p \in Procs :
    /\ pc[p] = "c_delete" /\ loc[p].recs # <<>>
    /\ Len(jsonl.lines) > Len(loc[p].recs)
    /\ SubSeq(jsonl.lines, Len(jsonl.lines) - Len(loc[p].recs) + 1,
              Len(jsonl.lines)) = loc[p].recs

\* C26: a vacuum() that runs right after a vacuum() that returned, with no
\* write in between, removes no record - the lines it is about to swap in
\* are the lines of C.jsonl - and rebuilds C.idx and C.bloom as they were,
\* whatever vacuumCacheSize >= 1.
C26_VacuumIdempotent ==
  [][\A p \in Procs :
       (res.op = "vacuum" /\ res.status = "ok" /\ pc'[p] # pc[p]) =>
         /\ (pc[p] = "v_trunc" /\ tmp.ex) => tmp.lines = jsonl.lines
         /\ pc[p] = "build" => (idx' = idx /\ bloom' = bloom)]_vars

\* C27: right after a vacuum() returned, C.jsonl holds at most as many
\* lines as there are distinct live ids plus ids in the overflow set of the
\* run.
C27_VacuumLineBound ==
  (Idle /\ res.op = "vacuum" /\ res.status = "ok") =>
    Len(jsonl.lines) <=
      Cardinality(LiveIds(jsonl.lines)) + Cardinality(res.overflow)

\* The vector is not an array of Dimension finite numbers.
Invalid(v) == Len(v) # Dimension \/ \E n \in 1..Len(v) : v[n] = NonFinite

\* C28: a put or batch on a vector collection in which the vector of some
\* record has the wrong length or an element that is not finite raises
\* VectorDimensionError or InvalidVectorError and writes nothing: storage
\* and the acknowledged records are as before the call.
C28_InvalidVectorWritesNothing ==
  [][(nextUid' # nextUid /\ res'.op \in {"put", "batch"}
      /\ \E n \in 1..Len(res'.recs) :
           res'.recs[n].data # NULL /\ Invalid(res'.vecs[n])) =>
       /\ res'.status \in {"VectorDimensionError", "InvalidVectorError"}
       /\ UNCHANGED storage
       /\ acked' = acked]_vars

\* A batch whose first put carries a valid vector and whose second put a
\* vector with an element that is not finite raised InvalidVectorError.
C28_Witness ==
  /\ res.op = "batch" /\ res.status = "InvalidVectorError"
  /\ Len(res.recs) = 2
  /\ res.recs[1].data # NULL /\ ~Invalid(res.vecs[1])
  /\ res.recs[2].data # NULL /\ Invalid(res.vecs[2])
  /\ muts = {}

\* The adaptive lease settings of the configuration, scaled to the clock of
\* the model: the lease added per unit of snapshot size and per mutation
\* blob, and the cap.
LeasePerByte == 1
LeasePerMutation == 1
MaxLeaseDurationMs == 4

\* The lease the configuration documents for a call of the given kind on
\* the current store, with adaptiveLease at its default (enabled): the base
\* lease plus the shares of the snapshot size and of the pending mutation
\* blobs, capped; twice that for a vacuum.
ExpectedLease(kind) ==
  LET est == LeaseDurationMs + EncodedLen(jsonl.lines) * LeasePerByte
               + Cardinality(muts) * LeasePerMutation
      capped == IF est > MaxLeaseDurationMs THEN MaxLeaseDurationMs ELSE est
  IN IF kind = "vacuum" THEN 2 * capped ELSE capped

\* C29: the expiresAt a process writes when it acquires or takes over the
\* lock is now plus the adaptive lease of its call.
C29_AdaptiveLease ==
  [][\A p \in Procs :
       (lock' # lock /\ lock'.exp # 0 /\ lock'.sid = p /\ pc'[p] # pc[p]) =>
         lock'.exp = now + ExpectedLease(loc'[p].kind)]_vars

InitMerge ==
  /\ InitDb([w |-> 1, g |-> 0, m |-> 2, f |-> TRUE, solo |-> FALSE,
             vec |-> FALSE, auto |-> FALSE, ttl |-> <<>>, d |-> 0, t |-> 0], {NumIds})
  /\ ~useIndex /\ ~useBloomFilter
  /\ jsonl = NoFile /\ idx = NoIdx /\ bloom = NoBloom /\ lock = NoLock
  /\ \E i \in Keys, d \in {NULL, DataOf(0, 1)} :
       muts = {[key |-> <<0, 0, 1>>, body |-> <<Rec(i, d, 0)>>]}

NextMerge ==
  \/ Tick
  \/ \E p \in Procs :
       \/ Put(p)
       \/ Delete(p)
       \/ AcquireLock(p, "compact")
       \/ Takeover(p)
       \/ CompactList(p)
       \/ CompactAppend(p)
       \/ CompactDelete(p)
       \/ buildBloomFilterAndIndex(p)
       \/ BodyFails(p)
       \/ ReleaseLock(p)

SpecMerge == InitMerge /\ [][NextMerge]_vars

\* C31: no step of a compaction - one that completes, one that aborts, one
\* that stops for good at any point, one that runs beside another - loses a
\* record: every record that is in a mutation blob or in C.jsonl before
\* the step is in a mutation blob or in C.jsonl after it, and a blob that a
\* step deletes has all its records in C.jsonl already, whether it was
\* written before the compaction started or while it ran.
C31_NoRecordLostByCompaction ==
  [][/\ AllRecs \subseteq AllRecs'
     /\ \A b \in muts \ muts' :
          \A n \in 1..Len(b.body) : b.body[n] \in Merged(jsonl)]_vars

\* A compaction has appended and deleted the blobs of a pass, and a blob
\* written while that pass ran is still in storage, not yet appended.
C31_Witness ==
  \E p \in Procs :
    /\ pc[p] = "c_list" /\ loc[p].keys # <<>>
    /\ \A n \in 1..Len(loc[p].recs) : loc[p].recs[n] \in Merged(jsonl)
    /\ \E b \in muts :
         /\ b.key[2] >= loc[p].seen
         /\ \E n \in 1..Len(b.body) : b.body[n] \notin Merged(jsonl)

\* One get through read() beside one write and one compact(), from an
\* empty store or from one that holds a pending mutation blob; the fast
\* paths of get are off and no lease runs out.
InitRead ==
  /\ InitDb([w |-> 1, g |-> 1, m |-> 1, f |-> FALSE, solo |-> FALSE,
             vec |-> FALSE, auto |-> FALSE, ttl |-> <<>>, d |-> 0, t |-> 0], {NumIds})
  /\ ~useIndex /\ ~useBloomFilter
  /\ jsonl = NoFile /\ idx = NoIdx /\ bloom = NoBloom /\ lock = NoLock
  /\ \/ muts = {}
     \/ \E i \in Keys, d \in {NULL, DataOf(0, 1)} :
          muts = {[key |-> <<0, 0, 1>>, body |-> <<Rec(i, d, 0)>>]}

NextRead ==
  \E p \in Procs :
    \/ Put(p)
    \/ Delete(p)
    \/ GetStart(p)
    \/ ReadMain(p)
    \/ ReadBlobs(p)
    \/ AcquireLock(p, "compact")
    \/ CompactList(p)
    \/ CompactAppend(p)
    \/ CompactDelete(p)
    \/ buildBloomFilterAndIndex(p)
    \/ ReleaseLock(p)

SpecRead == InitRead /\ [][NextRead]_vars

\* C32: when a read() that had listed the mutation keys ends, every record
\* that a listed blob held at the listing is among the records it yielded,
\* taken from the blob or from the snapshot, whatever a compaction did in
\* between.
C32_ReadMissesNoListedRecord ==
  [][\A p \in Procs :
       (pc[p] = "r_blobs" /\ pc'[p] = "idle") =>
         \A n \in 1..Len(loc[p].recs) :
           loc[p].recs[n] \in
             Merged([lines |-> loc[p].main.lines \o FetchAll(loc[p].keys)])]_vars

\* C33: two processes are inside the body of a compaction or vacuum at
\* the same time only when the lease of one of them has run out: as long
\* as every holder leaves its body before its own expiresAt has passed, at
\* most one process is inside, also when several processes have read the
\* same expired lock and go on to take it over.
C33_ExclusionWithinLease ==
  \A p \in Procs, q \in Procs :
    (p # q /\ InBody(p) /\ InBody(q)) =>
      (now > loc[p].exp \/ now > loc[q].exp)

\* Two calls had read the same expired lock: one took it over and is
\* inside its body within its lease, the putIfMatch of the other failed.
C33_Witness ==
  /\ res.status = "PreconditionFailedError"
  /\ \E q \in Procs :
       /\ q # res.by /\ InBody(q) /\ lock.sid = q
       /\ now <= loc[q].exp /\ lock.exp = loc[q].exp

\* C34: the release of a call whose lock another process has taken over
\* leaves the lock blob exactly as the new holder wrote it, and the release
\* of the process that wrote the lock last rewrites it with expiresAt = 0
\* under a new version; in both cases the call ends with the outcome of its
\* body, ok or the body's error, never with an error of the release; and no
\* step removes the lock blob once it exists.
C34_ReleaseOnlyOwnLease ==
  [][/\ lock.ex => lock'.ex
     /\ \A p \in Procs :
          (pc[p] = "rel" /\ pc'[p] # "rel") =>
            /\ lock.sid # p => lock' = lock
            /\ lock.sid = p =>
                 (lock'.sid = p /\ lock'.exp = 0 /\ lock'.etag # lock.etag)
            /\ res'.by = p
            /\ res'.status = IF loc[p].err THEN "raised" ELSE "ok"]_vars

\* A call whose lease had run out and whose lock was taken over has
\* returned: the new holder is inside its body and its lease stands.
C34_Witness ==
  /\ res.op \in {"compact", "vacuum"} /\ res.status = "ok"
  /\ \E q \in Procs :
       /\ q # res.by /\ InBody(q) /\ lock.sid = q
       /\ lock.exp = loc[q].exp /\ lock.exp > 0 /\ lock.etag = loc[q].etag

\* A collection in which some other program has left a blob of garbage
\* under the mutation prefix, alone or beside a well-formed blob of an
\* earlier call: one more write and one compact() side by side.
InitMalformed ==
  /\ InitDb([w |-> 1, g |-> 0, m |-> 1, f |-> FALSE, solo |-> FALSE,
             vec |-> FALSE, auto |-> FALSE, ttl |-> <<>>, d |-> 0, t |-> 0], {NumIds})
  /\ jsonl = NoFile /\ idx = NoIdx /\ bloom = NoBloom /\ lock = NoLock
  /\ \E good \in {{}} \cup
                  {{[key |-> <<0, 0, 2>>, body |-> <<Rec(i, d, 0)>>]} :
                     i \in Keys, d \in {NULL, DataOf(0, 1)}} :
       muts = {[key |-> <<0, 0, 1>>, body |-> Malformed]} \cup good

NextMalformed ==
  \E p \in Procs :
    \/ Put(p)
    \/ Delete(p)
    \/ AcquireLock(p, "compact")
    \/ CompactList(p)
    \/ CompactAppend(p)
    \/ CompactDelete(p)
    \/ buildBloomFilterAndIndex(p)
    \/ ReleaseLock(p)

SpecMalformed == InitMalformed /\ [][NextMalformed]_vars

\* The blobs in storage that the pass of p listed.
ListedBlobs(p) ==
  {b \in muts : \E n \in 1..Len(loc[p].keys) : loc[p].keys[n] = b.key}

\* C35: the append of a compaction pass adds to C.jsonl exactly the records
\* of the well-formed blobs of the pass, in key order, and nothing for a
\* malformed blob of the same pass; the delete of the pass removes every
\* listed blob, the malformed one included.
C35_MalformedBlobSkipped ==
  [][\A p \in Procs :
       /\ (pc[p] = "c_append" /\ pc'[p] = "c_delete") =>
            jsonl'.lines =
              jsonl.lines \o BodiesOf({b \in ListedBlobs(p) : b.body # Malformed})
       /\ (pc[p] = "c_delete" /\ pc'[p] = "c_list") =>
            /\ ListedBlobs(p)' = {}
            /\ muts' = muts \ ListedBlobs(p)]_vars

\* A pass that listed the malformed blob and a well-formed one is over:
\* both are deleted and C.jsonl holds the records of the well-formed one.
C35_Witness ==
  \E p \in Procs :
    /\ pc[p] = "c_list" /\ Len(loc[p].keys) >= 2
    /\ loc[p].keys[1] = <<0, 0, 1>>
    /\ ListedBlobs(p) = {}
    /\ jsonl.lines # <<>> /\ jsonl.lines = loc[p].recs

\* C37: when the swap of a vacuum() is over, C.jsonl holds exactly the
\* lines the vacuum had written to C.jsonl.tmp, in their order, whether the
\* temp file is shorter or longer than copyBufferSize.
C37_SwapCopiesLinesIntact ==
  [][\A p \in Procs :
       (pc[p] = "v_copy" /\ pc'[p] = "build") =>
         jsonl'.lines = loc[p].recs]_vars

\* A compacted collection on which vacuum() is called and an await of the
\* vacuum body may reject at any step.
InitAbort ==
  /\ InitDb([w |-> 0, g |-> 0, m |-> MaxMaint, f |-> TRUE, solo |-> TRUE,
             vec |-> FALSE, auto |-> FALSE, ttl |-> <<>>, d |-> 0, t |-> 0],
            1..NumIds)
  /\ \E ls \in SnapLines :
       /\ jsonl = File(ls)
       /\ idx = [ex |-> TRUE, map |-> IndexOf(ls)]
       /\ bloom = IF useBloomFilter THEN [ex |-> TRUE, bits |-> BloomOf(ls)]
                  ELSE NoBloom
  /\ muts = {}
  /\ lock = [ex |-> TRUE, sid |-> 1, exp |-> 0, etag |-> 2]

NextAbort ==
  \E p \in Procs :
    \/ AcquireLock(p, "vacuum")
    \/ Takeover(p)
    \/ VacuumInit(p)
    \/ VacuumPass1(p)
    \/ VacuumPass2(p)
    \/ VacuumTruncate(p)
    \/ VacuumCopy(p)
    \/ buildBloomFilterAndIndex(p)
    \/ BodyFails(p)
    \/ ReleaseLock(p)

SpecAbort == InitAbort /\ [][NextAbort]_vars

\* C36: right after a vacuum() ended with an error, at whatever step, every
\* id that was live before it still resolves to the same value in the
\* snapshot; a later vacuum() does not change that.
C36_AbortLosesNoLiveRecord ==
  (Idle /\ res.op = "vacuum" /\ res.status = "raised") =>
    \A i \in LiveBefore : ScanGet(jsonl.lines, i) = res.pre.snap[i]

\* A compacted collection on which one process calls vacuum() while the
\* others call get(); nothing is written.
InitOverlap ==
  /\ InitDb([w |-> 0, g |-> MaxGets, m |-> 1, f |-> FALSE, solo |-> FALSE,
             vec |-> FALSE, auto |-> FALSE, ttl |-> <<>>, d |-> 0, t |-> 0],
            1..NumIds)
  /\ \E ls \in SnapLines :
       /\ jsonl = File(ls)
       /\ idx = [ex |-> TRUE, map |-> IndexOf(ls)]
       /\ bloom = IF useBloomFilter THEN [ex |-> TRUE, bits |-> BloomOf(ls)]
                  ELSE NoBloom
  /\ muts = {}
  /\ lock = [ex |-> TRUE, sid |-> 1, exp |-> 0, etag |-> 2]

NextOverlap ==
  \E p \in Procs :
    \/ GetStart(p)
    \/ ReadMain(p)
    \/ ReadBlobs(p)
    \/ AcquireLock(p, "vacuum")
    \/ Takeover(p)
    \/ VacuumInit(p)
    \/ VacuumPass1(p)
    \/ VacuumPass2(p)
    \/ VacuumTruncate(p)
    \/ VacuumCopy(p)
    \/ buildBloomFilterAndIndex(p)
    \/ ReleaseLock(p)

SpecOverlap == InitOverlap /\ [][NextOverlap]_vars

\* C38: a get(id) that returned while the vacuum() of another process is
\* copying its temp file back answered what the snapshot held for id before
\* the vacuum or what the lines the vacuum kept hold for it; it did not see
\* the truncated or half-copied C.jsonl.
C38_ReadOverlappingVacuum ==
  \A q \in Procs :
    (pc[q] = "v_copy" /\ res.op = "get" /\ res.by # q) =>
      res.val \in {loc[q].pre.snap[res.id], ScanGet(loc[q].recs, res.id)}

\* The steps of a compact() call that holds the lock.
CompactionStep(p) ==
  \/ CompactList(p)
  \/ CompactAppend(p)
  \/ CompactDelete(p)
  \/ buildBloomFilterAndIndex(p)
  \/ ReleaseLock(p)

\* compact() beside writers that make a bounded number of writes: each
\* await of a compaction that holds the lock resolves, so the compaction
\* is not left waiting forever while it can go on.
SpecCompactFair ==
  /\ InitCompact
  /\ [][NextCompact]_vars
  /\ \A p \in Procs : WF_vars(CompactionStep(p))

\* C39: once the writers have stopped, a compaction that holds the lock
\* ends: it leaves its loop, rebuilds the index over the snapshot and
\* returns with the lock released and no mutation blob it had to merge
\* left behind.
C39_CompactionTerminates ==
  \A p \in Procs :
    (pc[p] = "c_list") ~>
      (/\ pc[p] = "idle" /\ res.by = p /\ res.op = "compact"
       /\ res.status = "ok"
       /\ lock.ex /\ lock.exp = 0
       /\ jsonl.ex => (idx.ex /\ idx.map = IndexOf(jsonl.lines)))

\* A compaction that merged the blobs of two writes has returned and has
\* left no blob behind.
C39_Witness ==
  \E p \in Procs :
    /\ pc[p] = "idle" /\ res.by = p /\ res.op = "compact" /\ res.status = "ok"
    /\ Len(jsonl.lines) >= 2
    /\ muts = {}

\* The process of p dies inside fn(): the finally clause of withLock never
\* runs, the lock blob stays as p wrote it and p makes no further step.
Crash(p) ==
  /\ InBody(p)
  /\ pc' = [pc EXCEPT ![p] = "crashed"]
  /\ UNCHANGED <<storage, now, nextUid, budget, config, lastTs, cache, loc, res, acked>>

\* compact() and vacuum() calls on an empty collection whose lock blob was
\* left released; the clock advances, and a process may die while it holds
\* the lock.
InitCrash ==
  /\ InitDb([w |-> 0, g |-> 0, m |-> MaxMaint, f |-> FALSE, solo |-> FALSE,
             vec |-> FALSE, auto |-> FALSE, ttl |-> <<>>, d |-> 0, t |-> 0], {NumIds})
  /\ jsonl = NoFile /\ muts = {} /\ idx = NoIdx /\ bloom = NoBloom
  /\ lock = [ex |-> TRUE, sid |-> 1, exp |-> 0, etag |-> 2]

NextCrash ==
  \/ Tick
  \/ \E p \in Procs :
       \/ AcquireLock(p, "compact")
       \/ AcquireLock(p, "vacuum")
       \/ Takeover(p)
       \/ CompactList(p)
       \/ buildBloomFilterAndIndex(p)
       \/ VacuumInit(p)
       \/ Crash(p)
       \/ ReleaseLock(p)

SpecCrash == InitCrash /\ [][NextCrash]_vars

\* C40: the expiresAt of a stored lock is never further away than one
\* lease; a compact() or vacuum() called when now is past the expiresAt of
\* the stored lock, whether its holder released it, overstayed or died, is
\* not refused but goes on to take the lock over; and that takeover enters
\* the body as the new holder unless another call has written the lock in
\* between, which is the only way it fails.
C40_ExpiredLockIsAcquired ==
  [][/\ lock.ex => lock.exp <= now + LeaseDurationMs
     /\ (budget'.m # budget.m /\ lock.ex /\ now > lock.exp) =>
          \E q \in Procs :
            /\ pc[q] = "idle" /\ pc'[q] = "takeover"
            /\ loc'[q].etag = lock.etag
     /\ \A q \in Procs :
          (pc[q] = "takeover" /\ pc'[q] # "takeover") =>
            IF lock.etag = loc[q].etag
            THEN /\ pc'[q] \in {"c_list", "v_init"}
                 /\ lock'.sid = q /\ lock'.exp = now + LeaseDurationMs
            ELSE UNCHANGED lock]_vars

\* A process died holding the lock, its lease ran out, and a later call of
\* another process took the lock over and is inside its body.
C40_Witness ==
  \E p, q \in Procs :
    /\ pc[p] = "crashed" /\ loc[p].exp < now
    /\ InBody(q) /\ lock.sid = q /\ lock.etag = loc[q].etag
    /\ loc[q].acq > loc[p].exp

====
